---- MODULE Spec2Model ----
(***************************************************************************)
(* A model of the extraction pipeline of universal_scraper_web:            *)
(*   - ExtractionPipeline.run / _process_batch   (core/pipeline.py)        *)
(*   - StreamResultHandler                       (utils/result_handler.py) *)
(*   - clean_and_deduplicate_items               (utils/ai_parser.py)      *)
(* Text is modelled as a sequence of one-character strings, so that        *)
(* serialisation, slugs and the tail patch of finalize are computed on     *)
(* characters as the code computes them.                                   *)
(***************************************************************************)
EXTENDS Integers, Sequences, FiniteSets, TLC

\* ------------------------------------------------------------------ bounds
\* Largest number of batches of one pipeline run.
MaxBatches == 3
\* Largest CONCURRENT_REQUESTS explored.
MaxConcurrency == 2
\* Largest number of items handed to one store before it is finalized.
MaxStoreItems == 3
\* Largest number of new items of one clean_and_deduplicate_items call.
MaxNewItems == 2
\* Largest number of jobs added to the table jobs.
MaxJobs == 3
\* Largest number of concurrent callers of enqueue_job.
MaxCallers == 2

\* Largest number of characters append_markdown adds to the Markdown file.
MaxMdChars == 3

\* The most blocks a page splits into, and the largest BATCH_SIZE.
MaxBlocks == 5
MaxBatchSize == 3

\* The most pages a job may ask for.
MaxPages == 2
\* The most proxies a job may list.
MaxProxies == 2

\* ------------------------------------------------------- program constants
\* finalize looks back at most this many bytes for the trailing comma.
TailLimit == 10
\* a slug built from a title is cut to this many characters.
SlugLimit == 30
\* a generated token is the first characters of a uuid4 string.
TokenLen == 8
\* The length of the rules of '=' in the header of a page.
RuleLen == 20
WideRuleLen == 50

\* CRAWL_CONFIG["RETRY_ATTEMPTS"]
RetryAttempts == 3

\* ----------------------------------------------------------- text helpers
Min(a, b) == IF a < b THEN a ELSE b

\* s[from:] of Python, from 0-based.
Drop(s, n) == SubSeq(s, n + 1, Len(s))

\* s[:n] of Python.
Take(s, n) == SubSeq(s, 1, Min(n, Len(s)))

RECURSIVE Concat(_)
\* The concatenation of a sequence of sequences.
Concat(ss) == IF ss = <<>> THEN <<>> ELSE Head(ss) \o Concat(Tail(ss))

\* What str.strip() and bytes.strip() remove.
IsSpace(c) == c \in {" ", "\n", "\t", "\r"}

\* bytes.rfind(b','): the 0-based index of the last comma, -1 when none.
RFindComma(s) ==
  LET hits == {i \in 1..Len(s) : s[i] = ","}
  IN  IF hits = {} THEN -1 ELSE (CHOOSE i \in hits : \A j \in hits : j <= i) - 1

\* after_comma.strip() == b''
AllSpace(s) == \A i \in 1..Len(s) : IsSpace(s[i])

\* ------------------------------------------------------------------ items
\* An item is a Python dict in insertion order: a sequence of <<key, value>>
\* pairs with distinct keys; a value is a string (a sequence of characters).
HasKey(item, k) == \E i \in 1..Len(item) : item[i][1] = k

\* dict.get(k, default)
DictGet(item, k, default) ==
  IF HasKey(item, k)
  THEN item[CHOOSE i \in 1..Len(item) : item[i][1] = k][2]
  ELSE default

\* item.get('id'): the id of an item, empty when it has none.
IdOf(item) == DictGet(item, "id", <<>>)

\* item[k] = v: in place when the key exists, appended otherwise.
DictSet(item, k, v) ==
  IF HasKey(item, k)
  THEN [i \in 1..Len(item) |-> IF item[i][1] = k THEN <<k, v>> ELSE item[i]]
  ELSE Append(item, <<k, v>>)

\* The characters of a key.
KeyChars(k) ==
  IF k = "id" THEN <<"i", "d">> ELSE <<"t", "i", "t", "l", "e">>

\* json.dumps of one character of a string (ensure_ascii=False).
DumpChar(c) ==
  IF c = "\"" THEN <<"\\", "\"">>
  ELSE IF c = "\\" THEN <<"\\", "\\">>
  ELSE IF c = "\n" THEN <<"\\", "n">>
  ELSE <<c>>

\* json.dumps of a string.
DumpString(s) ==
  <<"\"">> \o Concat([i \in 1..Len(s) |-> DumpChar(s[i])]) \o <<"\"">>

\* json.dumps of a dict: members joined by ", ", key and value by ": ".
DumpItem(item) ==
  <<"{">>
  \o Concat([i \in 1..Len(item) |->
        (IF i > 1 THEN <<",", " ">> ELSE <<>>)
        \o DumpString(KeyChars(item[i][1])) \o <<":", " ">>
        \o DumpString(item[i][2])])
  \o <<"}">>

\* ---------------------------------------------------- StreamResultHandler
\* _init_files, the Markdown file: a title line, a date line and an empty
\* line (the job id and the date are left out of the title and date lines).
MdInit == <<"#", "\n", "\n", "\n">>

\* Mutant: the data file starts as a complete empty list.
JsonInitEmptyList == <<"[", "]", "\n">>

\* _init_files: the data file starts as the open array "[\n".
JsonInit == <<"[", "\n">>

\* One line of append_data: "  " + json.dumps(item) + ",\n".
ItemLine(item) == <<" ", " ">> \o DumpItem(item) \o <<",", "\n">>

\* The json_str append_data builds from its items.
JsonStr(items) == Concat([i \in 1..Len(items) |-> ItemLine(items[i])])

\* Mutant: the data file is opened with "w" instead of "a".
WriteTruncating(file, text) == text

\* open(json_file, "a").write(json_str)
WriteAppend(file, text) == file \o text

\* append_data: nothing for an empty list, else one appending write.
AppendData(file, items) ==
  IF items = <<>> THEN file ELSE WriteAppend(file, JsonStr(items))

\* Mutant: the file is cut after the comma instead of at it.
TruncateAfterComma(file) ==
  LET file_size    == Len(file)
      search_limit == Min(file_size, TailLimit)
      tail         == Drop(file, file_size - search_limit)
      last_comma   == RFindComma(tail)
  IN  IF search_limit > 0 /\ last_comma # -1 /\ AllSpace(Drop(tail, last_comma + 1))
      THEN (file_size - search_limit) + last_comma + 1
      ELSE file_size

\* finalize, first half: the position to truncate at, or the size when the
\* tail holds no comma followed by whitespace only.
TruncatePos(file) ==
  LET file_size    == Len(file)
      search_limit == Min(file_size, TailLimit)
      tail         == Drop(file, file_size - search_limit)
      last_comma   == RFindComma(tail)
  IN  IF search_limit > 0 /\ last_comma # -1 /\ AllSpace(Drop(tail, last_comma + 1))
      THEN (file_size - search_limit) + last_comma
      ELSE file_size

\* finalize: truncate at the trailing comma, then append "\n]".
FinalizeFile(file) == Take(file, TruncatePos(file)) \o <<"\n", "]">>

\* ------------------------------------------------- reading a JSON array
\* What json.load makes of a data file: used to state that a file is, or is
\* not, a JSON array of given items.  Values are objects of string members.
ParseFail == [ok |-> FALSE, val |-> <<>>, pos |-> 0]

CharAt(s, i) == IF i >= 1 /\ i <= Len(s) THEN s[i] ELSE "EOF"

RECURSIVE SkipWs(_, _)
SkipWs(s, i) == IF IsSpace(CharAt(s, i)) THEN SkipWs(s, i + 1) ELSE i

RECURSIVE ScanString(_, _, _)
\* The rest of a string literal from position i, after its opening quote.
ScanString(s, i, acc) ==
  LET c == CharAt(s, i) IN
  IF c = "EOF" \/ c = "\n" \/ c = "\t" \/ c = "\r" THEN ParseFail
  ELSE IF c = "\"" THEN [ok |-> TRUE, val |-> acc, pos |-> i + 1]
  ELSE IF c = "\\" THEN
    LET e == CharAt(s, i + 1) IN
    IF e \in {"\"", "\\"} THEN ScanString(s, i + 2, Append(acc, e))
    ELSE IF e = "n" THEN ScanString(s, i + 2, Append(acc, "\n"))
    ELSE ParseFail
  ELSE ScanString(s, i + 1, Append(acc, c))

ParseString(s, i) ==
  IF CharAt(s, i) = "\"" THEN ScanString(s, i + 1, <<>>) ELSE ParseFail

KeyOf(chars) ==
  IF chars = KeyChars("id") THEN "id"
  ELSE IF chars = KeyChars("title") THEN "title"
  ELSE "other"

RECURSIVE ParseMembers(_, _, _)
\* "key": "value" members from position i up to the closing brace.
ParseMembers(s, i, acc) ==
  LET k == ParseString(s, i) IN
  IF ~k.ok THEN ParseFail ELSE
  LET colon == SkipWs(s, k.pos) IN
  IF CharAt(s, colon) # ":" THEN ParseFail ELSE
  LET v == ParseString(s, SkipWs(s, colon + 1)) IN
  IF ~v.ok THEN ParseFail ELSE
  LET next == SkipWs(s, v.pos)
      item == DictSet(acc, KeyOf(k.val), v.val)
  IN  IF CharAt(s, next) = "}" THEN [ok |-> TRUE, val |-> item, pos |-> next + 1]
      ELSE IF CharAt(s, next) = "," THEN ParseMembers(s, SkipWs(s, next + 1), item)
      ELSE ParseFail

ParseObject(s, i) ==
  IF CharAt(s, i) # "{" THEN ParseFail
  ELSE LET j == SkipWs(s, i + 1) IN
       IF CharAt(s, j) = "}" THEN [ok |-> TRUE, val |-> <<>>, pos |-> j + 1]
       ELSE ParseMembers(s, j, <<>>)

RECURSIVE ParseElements(_, _, _)
\* The elements of an array from position i up to the closing bracket.
ParseElements(s, i, acc) ==
  LET o == ParseObject(s, i) IN
  IF ~o.ok THEN ParseFail ELSE
  LET next == SkipWs(s, o.pos)
      got  == Append(acc, o.val)
  IN  IF CharAt(s, next) = "]" THEN [ok |-> TRUE, val |-> got, pos |-> next + 1]
      ELSE IF CharAt(s, next) = "," THEN ParseElements(s, SkipWs(s, next + 1), got)
      ELSE ParseFail

\* The whole text as one JSON array: [ok, val] with val the list of items.
ParseJsonArray(s) ==
  LET open == SkipWs(s, 1) IN
  IF CharAt(s, open) # "[" THEN ParseFail ELSE
  LET first == SkipWs(s, open + 1)
      body  == IF CharAt(s, first) = "]"
               THEN [ok |-> TRUE, val |-> <<>>, pos |-> first + 1]
               ELSE ParseElements(s, first, <<>>)
  IN  IF body.ok /\ SkipWs(s, body.pos) > Len(s) THEN body ELSE ParseFail

IsJsonArray(s) == ParseJsonArray(s).ok

\* ------------------------------------------------------------------ state
VARIABLES
  \* ExtractionPipeline.run
  nBatches,        \* total_batches
  concurrency,     \* CONCURRENT_REQUESTS, the size of the semaphore
  semValue,        \* free slots of the semaphore
  pc,              \* per batch task: "waiting", "inflight" or "done"
  outcome,         \* per batch: what Provider.extract did (once it settled)
  results,         \* per batch: what the task handed to gather
  completedCount,  \* completed_count[0]
  progressLog,     \* the percentages given to progress_callback, in order
  chunkLog,        \* the item lists given to stream_callback, in order
  settleOrder,     \* the batch indices in the order their calls completed
  calls,           \* per batch: how often Provider.extract was called
  eventLog,        \* the callback invocations of run, in order
  stuck,           \* the batch whose Provider call never returns (0: none)
  raisedIn,        \* the callback invocations that raised: <<batch, kind>>
  runPc,           \* "idle", "running", "returned" or "raised"
  returned,        \* extracted_items as returned by run
  \* StreamResultHandler
  jsonFile,        \* the characters of <job_id>.json
  storeState,      \* "idle", "open" (initialised) or "finalized"
  written,         \* the items handed to append_data so far, in order
  mdFile,          \* the characters of <job_id>.md
  failures,        \* the number of items whose append_data write failed
  \* clean_and_deduplicate_items
  dItems,          \* items
  dExisting,       \* existing_data
  dResult,         \* processed_items
  dPc,             \* "idle", "call" or "done"
  \* extract_json_from_text and LiteLLMProvider.extract
  pInput,          \* the raw response (or the value given in its place)
  pFailed,         \* litellm.acompletion raised
  pParsed,         \* (data, error) of extract_json_from_text
  pItems,          \* what LiteLLMProvider.extract handed to its caller
  pPc,             \* "idle", "call", "parsed" or "extracted"
  \* ContentSplitter
  sText,           \* markdown
  sMaxChars,       \* max_chars
  sPattern,        \* ai_split_pattern
  sResult,         \* what split_markdown_to_blocks did
  sPc,             \* "idle", "call" or "done"
  \* the batching of ExtractionPipeline.run
  bBlocks,         \* blocks
  bSize,           \* batch_size
  bBatches,        \* batched_blocks
  bPc,             \* "idle", "call" or "done"
  \* CrawlOrchestrator.run
  cMaxPages,       \* config.max_pages
  cLlm,            \* config.llm_config is given
  cProxies,        \* len(config.proxies)
  cProxyIdx,       \* current_proxy_idx
  cPage,           \* p, the index of the loop
  cPagesCrawled,   \* pages_crawled
  cLastError,      \* last_error
  cInitFailure,    \* the file StreamResultHandler failed to create, if any
  cLog,            \* the fetches, appends, pipeline runs and finalize so far
  cResult,         \* the dict run returned
  cPc,             \* "idle", "start", "loop", "finalize", "returned", "raised"
  \* the jobs table, JobService.enqueue_job and JobQueueWorker.run
  qJobs,           \* the rows of the table jobs, by id
  qClock,          \* the last reading of datetime.now()
  qRecord,         \* per caller of enqueue_job: the JobRecord not yet added
  wPc,             \* where the worker stands in its loop
  wJob,            \* job.id of the job the worker holds (0: none)
  wSuccess,        \* result.get("success") of the job it executed
  wRunning,        \* self.is_running
  wLog,            \* the polls that found a job and the executions
  \* PageFetcher._execute_with_retry
  fMagic,          \* magic_mode
  fAttempt,        \* attempt, the index of the loop
  fLog,            \* the calls of crawler.arun so far
  fResult,         \* what _execute_with_retry returned or raised
  fPc              \* where the call stands

pipeVars == <<nBatches, concurrency, semValue, pc, outcome, results,
              completedCount, progressLog, chunkLog, settleOrder, calls,
              eventLog, stuck, raisedIn, runPc, returned>>
storeVars == <<jsonFile, storeState, written, mdFile, failures>>
dedupVars == <<dItems, dExisting, dResult, dPc>>
parseVars == <<pInput, pFailed, pParsed, pItems, pPc>>
splitVars == <<sText, sMaxChars, sPattern, sResult, sPc>>
textVars == <<dedupVars, parseVars, splitVars>>
batchVars == <<bBlocks, bSize, bBatches, bPc>>
crawlVars == <<cMaxPages, cLlm, cProxies, cProxyIdx, cPage, cPagesCrawled,
               cLastError, cInitFailure, cLog, cResult, cPc>>
queueVars == <<qJobs, qClock, qRecord, wPc, wJob, wSuccess, wRunning, wLog>>
fetchVars == <<fMagic, fAttempt, fLog, fResult, fPc>>
svcVars == <<queueVars, fetchVars>>
jobVars == <<batchVars, crawlVars, svcVars>>
vars == <<pipeVars, storeVars, textVars, jobVars>>

\* --------------------------------------------------- ExtractionPipeline
Batches == 1..nBatches

\* Items a Provider hands back: one without an id, one with an id.
ItemA == << <<"title", <<"a">>>> >>
ItemB == << <<"id", <<"x">>>>, <<"title", <<"b">>>> >>

\* The lists Provider.extract may return.
Responses == {<<>>, <<ItemA>>, <<ItemB>>, <<ItemA, ItemB>>}

\* What one Provider.extract call does: it returns a list or it raises.
Outcomes ==
  {[kind |-> "return", items |-> r] : r \in Responses}
  \cup {[kind |-> "raise", items |-> <<>>]}

Pending == [kind |-> "pending", items |-> <<>>]

\* `if items:` of _process_batch.
Succeeded(o) == o.kind = "return" /\ o.items # <<>>

\* int((completed_count[0] / total_batches) * 100): the percentage cut to
\* an integer (for the totals explored the float product is cut as the
\* exact quotient is).
Percent(completed, total) == (completed * 100) \div total

\* Mutant: the second increment of the counter is lost.
IncrementLost(c) == IF c = 1 THEN c ELSE c + 1

\* completed_count[0] += 1, with no suspension point between the read and
\* the write.
Increment(c) == c + 1

\* Mutant: a batch that gave no items goes back to wait for a slot and is
\* sent to the Provider again.
AfterBatchRetry(o) == IF Succeeded(o) THEN "done" ELSE "waiting"

\* _process_batch has no loop around provider.extract: whatever the call
\* did, the task of the batch ends.
AfterBatch(o) == "done"

\* Mutant: stream_callback is called with whatever list came back.
ChunkEventsAnyList(b, o) ==
  IF o.kind = "return"
  THEN <<[kind |-> "chunk", batch |-> b, items |-> o.items, percent |-> 0]>>
  ELSE <<>>

\* `if items: ... stream_callback(items)`: the call _process_batch makes
\* to stream_callback for batch b.
ChunkEvents(b, o) ==
  IF Succeeded(o)
  THEN <<[kind |-> "chunk", batch |-> b, items |-> o.items, percent |-> 0]>>
  ELSE <<>>

\* The callbacks _process_batch invokes for batch b, in the order of the
\* code: stream_callback inside the try, progress_callback in the finally.
BatchEvents(b, o, completed) ==
  ChunkEvents(b, o)
  \o <<[kind |-> "progress", batch |-> b, items |-> <<>>,
        percent |-> Percent(completed, nBatches)]>>

\* Mutant: leaving `async with semaphore` gives no slot back.
ReleaseNever(v) == v

\* Leaving `async with semaphore`: Semaphore.release.
Release(v) == v + 1

\* Mutant: a task whose Provider call raised leaves without giving its
\* slot back.
ReleaseUnlessRaised(o, v) == IF o.kind = "raise" THEN v ELSE v + 1

\* `async with semaphore:` around the whole body of _process_batch: the
\* slot is released on the way out whatever the outcome o of the call was
\* (return items, return [], exception caught by `except Exception`).
ReleaseOnExit(o, v) == Release(v)

\* Mutant: the semaphore admits one task too many.
SemFreeOffByOne == semValue >= 0

\* asyncio.Semaphore.acquire does not block.
SemFree == semValue > 0

\* Mutant: _process_batch without its `except Exception` clause.
BatchReturnNoExcept(o) ==
  IF Succeeded(o) THEN [exc |-> FALSE, items |-> o.items]
  ELSE [exc |-> o.kind = "raise", items |-> <<>>]

\* The value of a batch task: the items on success, [] when the call
\* returned nothing, [] when it raised (except Exception: return []).
BatchReturn(o) ==
  IF Succeeded(o) THEN [exc |-> FALSE, items |-> o.items]
  ELSE [exc |-> FALSE, items |-> <<>>]

\* Mutant: run goes on as soon as one task is done.
GatherFirstCompleted == nBatches = 0 \/ \E b \in Batches : pc[b] = "done"

\* asyncio.gather(*tasks) has every result.
GatherDone == \A b \in Batches : pc[b] = "done"

RECURSIVE FlattenFrom(_, _)
\* for res in results: extracted_items.extend(res), from index b on.
FlattenFrom(res, b) ==
  IF b > Len(res) THEN <<>> ELSE res[b].items \o FlattenFrom(res, b + 1)

\* Mutant: the results are concatenated in completion order.
FlattenByCompletion(res) ==
  Concat([k \in 1..Len(settleOrder) |-> res[settleOrder[k]].items])

\* The list run returns: the results of gather in task order.
Flatten(res) == FlattenFrom(res, 1)

\* run up to the start of gather, leaving open which Provider call hangs.
PipeStart ==
  /\ nBatches \in 0..MaxBatches
  /\ concurrency \in 1..MaxConcurrency
  /\ semValue = concurrency
  /\ pc = [b \in Batches |-> "waiting"]
  /\ outcome = [b \in Batches |-> Pending]
  /\ results = [b \in Batches |-> [exc |-> FALSE, items |-> <<>>]]
  /\ completedCount = 0
  /\ progressLog = <<>>
  /\ chunkLog = <<>>
  /\ settleOrder = <<>>
  /\ calls = [b \in Batches |-> 0]
  /\ eventLog = <<>>
  /\ raisedIn = {}
  /\ runPc = "running"
  /\ returned = <<>>

\* A run in which every Provider call comes back.
PipeInit == PipeStart /\ stuck = 0

PipeIdle ==
  /\ nBatches = 0
  /\ concurrency = 1
  /\ semValue = 1
  /\ pc = <<>>
  /\ outcome = <<>>
  /\ results = <<>>
  /\ completedCount = 0
  /\ progressLog = <<>>
  /\ chunkLog = <<>>
  /\ settleOrder = <<>>
  /\ calls = <<>>
  /\ eventLog = <<>>
  /\ stuck = 0
  /\ raisedIn = {}
  /\ runPc = "idle"
  /\ returned = <<>>

StoreInit ==
  /\ jsonFile = JsonInit
  /\ storeState = "open"
  /\ written = <<>>
  /\ mdFile = MdInit
  /\ failures = 0

StoreIdle ==
  /\ jsonFile = <<>>
  /\ storeState = "idle"
  /\ written = <<>>
  /\ mdFile = <<>>
  /\ failures = 0

DedupIdle ==
  /\ dItems = <<>>
  /\ dExisting = <<>>
  /\ dResult = <<>>
  /\ dPc = "idle"

ParseIdle ==
  /\ pInput = <<>>
  /\ pFailed = FALSE
  /\ pParsed = <<>>
  /\ pItems = <<>>
  /\ pPc = "idle"

SplitIdle ==
  /\ sText = <<>>
  /\ sMaxChars = 0
  /\ sPattern = <<>>
  /\ sResult = <<>>
  /\ sPc = "idle"

TextIdle == DedupIdle /\ ParseIdle /\ SplitIdle

BatchIdle ==
  /\ bBlocks = <<>>
  /\ bSize = 1
  /\ bBatches = [raised |-> FALSE, batches |-> <<>>]
  /\ bPc = "idle"

CrawlIdle ==
  /\ cMaxPages = 0
  /\ cLlm = FALSE
  /\ cProxies = 0
  /\ cProxyIdx = 0
  /\ cPage = 0
  /\ cPagesCrawled = 0
  /\ cLastError = <<>>
  /\ cInitFailure = "none"
  /\ cLog = <<>>
  /\ cResult = <<>>
  /\ cPc = "idle"

QueueIdle ==
  /\ qJobs = <<>>
  /\ qClock = 0
  /\ qRecord = <<>>
  /\ wPc = "idle"
  /\ wJob = 0
  /\ wSuccess = FALSE
  /\ wRunning = FALSE
  /\ wLog = <<>>

FetchIdle ==
  /\ fMagic = FALSE
  /\ fAttempt = 0
  /\ fLog = <<>>
  /\ fResult = <<>>
  /\ fPc = "idle"

SvcIdle == QueueIdle /\ FetchIdle

JobIdle == BatchIdle /\ CrawlIdle /\ SvcIdle

\* `async with semaphore`: task b gets a slot and calls Provider.extract.
\* Tasks are admitted in the order gather started them.
Acquire(b) ==
  /\ pc[b] = "waiting"
  /\ \A j \in Batches : j < b => pc[j] # "waiting"
  /\ SemFree
  /\ semValue' = semValue - 1
  /\ pc' = [pc EXCEPT ![b] = "inflight"]
  /\ calls' = [calls EXCEPT ![b] = @ + 1]
  /\ UNCHANGED <<nBatches, concurrency, outcome, results, completedCount,
                 progressLog, chunkLog, settleOrder, eventLog, stuck,
                 raisedIn, runPc, returned>>
  /\ UNCHANGED <<storeVars, textVars, jobVars>>

\* Provider.extract of batch b completes with outcome o; the rest of
\* _process_batch runs without suspending: stream_callback on success (the
\* on_chunk_extracted of the orchestrator: storage.append_data), the return
\* value, the finally block, and the release of the slot.
Settle(b, o) ==
  /\ pc[b] = "inflight"
  /\ b # stuck
  /\ outcome' = [outcome EXCEPT ![b] = o]
  /\ IF Succeeded(o)
     THEN /\ chunkLog' = Append(chunkLog, o.items)
          /\ jsonFile' = AppendData(jsonFile, o.items)
          /\ written' = written \o o.items
     ELSE UNCHANGED <<chunkLog, jsonFile, written>>
  /\ results' = [results EXCEPT ![b] = BatchReturn(o)]
  /\ completedCount' = Increment(completedCount)
  /\ progressLog' =
       Append(progressLog, Percent(Increment(completedCount), nBatches))
  /\ eventLog' = eventLog \o BatchEvents(b, o, Increment(completedCount))
  /\ semValue' = ReleaseOnExit(o, semValue)
  /\ pc' = [pc EXCEPT ![b] = AfterBatch(o)]
  /\ settleOrder' = Append(settleOrder, b)
  /\ UNCHANGED <<nBatches, concurrency, calls, stuck, raisedIn, runPc,
                 returned, storeState, mdFile, failures>>
  /\ UNCHANGED <<textVars, jobVars>>

\* results = await asyncio.gather(*tasks), then the flattening loop; an
\* exception of a task is raised by gather and leaves run.
RunReturn ==
  /\ runPc = "running"
  /\ GatherDone
  /\ IF \E b \in Batches : results[b].exc
     THEN runPc' = "raised" /\ returned' = <<>>
     ELSE runPc' = "returned" /\ returned' = Flatten(results)
  /\ UNCHANGED <<nBatches, concurrency, semValue, pc, outcome, results,
                 completedCount, progressLog, chunkLog, settleOrder, calls,
                 eventLog, stuck, raisedIn>>
  /\ UNCHANGED <<storeVars, textVars, jobVars>>

\* CrawlOrchestrator.run, step 4: storage.finalize() once the page is done.
JobFinalize ==
  /\ runPc \in {"returned", "raised"}
  /\ storeState = "open"
  /\ jsonFile' = FinalizeFile(jsonFile)
  /\ storeState' = "finalized"
  /\ UNCHANGED <<written, mdFile, failures, pipeVars, textVars, jobVars>>

Init == PipeInit /\ StoreInit /\ TextIdle /\ JobIdle

Next ==
  \/ \E b \in Batches : Acquire(b)
  \/ \E b \in Batches : \E o \in Outcomes : Settle(b, o)
  \/ RunReturn
  \/ JobFinalize

\* ExtractionPipeline.run with the callbacks _process_page_result gives it
\* (stream_callback = storage.append_data), followed by storage.finalize().
Spec == Init /\ [][Next]_vars

\* A run in which the Provider call of at most one batch never returns.
InitStuck ==
  PipeStart /\ stuck \in 0..nBatches /\ StoreInit /\ TextIdle /\ JobIdle

\* The event loop runs every task that can run: a task waiting for a free
\* slot is resumed, and a Provider call that returns is followed by the
\* rest of its _process_batch.
Fairness ==
  /\ WF_vars(\E b \in Batches : Acquire(b))
  /\ \A b \in 1..MaxBatches :
       WF_vars(b \in Batches /\ \E o \in Outcomes : Settle(b, o))
  /\ WF_vars(RunReturn)
  /\ WF_vars(JobFinalize)

\* The run of Spec under the scheduling of the event loop, one Provider
\* call possibly hanging for ever.
SpecStuck == InitStuck /\ [][Next]_vars /\ Fairness

\* ------------------------------------------------- claims on the pipeline
\* The batches whose Provider.extract call has started and not completed.
InFlight == {b \in Batches : pc[b] = "inflight"}

\* The position of batch b in the completion order (0: not completed).
SettledAt(b) ==
  IF \E k \in 1..Len(settleOrder) : settleOrder[k] = b
  THEN CHOOSE k \in 1..Len(settleOrder) : settleOrder[k] = b
  ELSE 0

\* Two successful batches with different items, the later one completing
\* first.
OutOfOrderPair ==
  \E i, j \in Batches :
    /\ i < j
    /\ Succeeded(outcome[i]) /\ Succeeded(outcome[j])
    /\ outcome[i].items # outcome[j].items
    /\ SettledAt(j) < SettledAt(i)

\* The number of occurrences of v in the list s.
Count(s, v) == Cardinality({i \in 1..Len(s) : s[i] = v})

RECURSIVE SumCount(_, _)
\* The occurrences of v in the items of the successful batches b..nBatches.
SumCount(b, v) ==
  IF b > nBatches THEN 0
  ELSE (IF Succeeded(outcome[b]) THEN Count(outcome[b].items, v) ELSE 0)
       + SumCount(b + 1, v)

RECURSIVE ItemsBefore(_)
\* The number of items the successful batches before b returned.
ItemsBefore(b) ==
  IF b <= 1 THEN 0
  ELSE ItemsBefore(b - 1)
       + (IF Succeeded(outcome[b - 1]) THEN Len(outcome[b - 1].items) ELSE 0)

\* C1: during run, the number of batches whose Provider.extract call has
\* started and has not yet returned or raised never exceeds the
\* concurrency limit.
C1_BoundedInFlight == Cardinality(InFlight) <= concurrency

\* C1 witness: the limit is reached while another batch waits for a slot
\* and an earlier call has already completed.
C1_Witness ==
  /\ Cardinality(InFlight) = concurrency
  /\ \E b \in Batches : pc[b] = "waiting"
  /\ settleOrder # <<>>

\* C2: whatever batches raise or return nothing, no exception leaves run,
\* a failed or empty batch hands gather an empty list, and the returned
\* list holds exactly the items of the other batches (each item as often
\* as those batches returned it).
C2_FailuresContributeNothing ==
  /\ runPc # "raised"
  /\ \A b \in Batches :
       pc[b] = "done" /\ ~Succeeded(outcome[b])
         => results[b] = [exc |-> FALSE, items |-> <<>>]
  /\ runPc = "returned" =>
       \A v \in {ItemA, ItemB} : Count(returned, v) = SumCount(1, v)

\* C2 witness: run has returned with a raising batch, an empty batch and a
\* successful batch.
C2_Witness ==
  /\ runPc = "returned"
  /\ \E b \in Batches : outcome[b].kind = "raise"
  /\ \E b \in Batches : outcome[b].kind = "return" /\ outcome[b].items = <<>>
  /\ \E b \in Batches : Succeeded(outcome[b])

\* C3: the returned list is the concatenation of the per-batch item lists
\* in batch index order: the items of batch b start right after the items
\* of the batches before it, whatever the completion order was.
C3_BatchIndexOrder ==
  runPc = "returned" =>
    /\ Len(returned) = ItemsBefore(nBatches + 1)
    /\ \A b \in Batches :
         Succeeded(outcome[b]) =>
           SubSeq(returned, ItemsBefore(b) + 1,
                  ItemsBefore(b) + Len(outcome[b].items)) = outcome[b].items

\* C3 witness: run has returned after two successful batches completed in
\* the reverse of their index order.
C3_Witness == runPc = "returned" /\ OutOfOrderPair

\* C4: when run returns, every batch has settled: no call is in flight,
\* every slot is back in the semaphore and every batch reported progress.
C4_ReturnsAfterAllSettled ==
  runPc = "returned" =>
    /\ \A b \in Batches : pc[b] = "done" /\ outcome[b].kind # "pending"
    /\ semValue = concurrency
    /\ completedCount = nBatches
    /\ Len(progressLog) = nBatches

\* C4 witness: run has returned from more batches than slots.
C4_Witness ==
  runPc = "returned" /\ nBatches > concurrency /\ Len(settleOrder) = nBatches

\* Every item of the list has a non-empty id.
AllHaveId(items) == \A i \in 1..Len(items) : IdOf(items[i]) # <<>>

\* The ids of the list are pairwise distinct.
DistinctIds(items) ==
  \A i, j \in 1..Len(items) : i # j => IdOf(items[i]) # IdOf(items[j])

ChunkLines == Concat([k \in 1..Len(chunkLog) |-> JsonStr(chunkLog[k])])

\* C10: the appends of concurrent batch tasks exclude one another: until
\* finalize, the data file is the opening line followed by the lines of
\* each delivered chunk as one contiguous run, in delivery order; no line
\* of a chunk is lost, overwritten or mixed with another chunk's lines.
C10_AppendsContiguous ==
  storeState = "open" => jsonFile = JsonInit \o ChunkLines

\* C10 witness: two batches of a run with at least two slots delivered
\* different chunks, the later batch first, and both are in the file.
C10_Witness ==
  /\ storeState = "open"
  /\ concurrency >= 2
  /\ OutOfOrderPair
  /\ Len(chunkLog) >= 2

\* ------------------------------------------- StreamResultHandler alone
\* Items handed to a store: an empty dict, values holding a comma, a quote.
StoreItem1 == <<>>
StoreItem2 == << <<"id", <<"x">>>> >>
StoreItem3 == << <<"title", <<"a", ",">>>> >>
StoreItem4 == << <<"id", <<"x">>>>, <<"title", <<"\"", "b">>>> >>
StoreItems == {StoreItem1, StoreItem2, StoreItem3, StoreItem4}

\* The lists one append_data call may get.
StoreCalls ==
  {<<>>} \cup {<<a>> : a \in StoreItems}
         \cup {<<a, b>> : a \in StoreItems, b \in StoreItems}

\* append_data(items) on an initialised store.
StoreAppend(items) ==
  /\ storeState = "open"
  /\ Len(written) + failures + Len(items) <= MaxStoreItems
  /\ jsonFile' = AppendData(jsonFile, items)
  /\ written' = written \o items
  /\ UNCHANGED <<storeState, mdFile, failures, pipeVars, textVars, jobVars>>

\* finalize() on an initialised store.
StoreFinalize ==
  /\ storeState = "open"
  /\ jsonFile' = FinalizeFile(jsonFile)
  /\ storeState' = "finalized"
  /\ UNCHANGED <<written, mdFile, failures, pipeVars, textVars, jobVars>>

InitStore == PipeIdle /\ StoreInit /\ TextIdle /\ JobIdle

NextStore ==
  \/ \E items \in StoreCalls : StoreAppend(items)
  \/ StoreFinalize

\* A store from its initialisation to finalize, under any appends.
SpecStore == InitStore /\ [][NextStore]_vars

\* The open data file of the items handed over so far, as the code writes it.
OpenFile == <<"[", "\n">> \o Concat([i \in 1..Len(written) |-> ItemLine(written[i])])

\* C8: after any appends that delivered N items in all (N >= 0) and one
\* finalize, the data file is a JSON array of exactly those N items in the
\* order they were appended, and it is the open file with its trailing
\* comma (and the line end after it) replaced by "\n]": no other
\* character is removed.
C8_FinalizedIsArrayOfAppended ==
  storeState = "finalized" =>
    /\ ParseJsonArray(jsonFile).ok
    /\ ParseJsonArray(jsonFile).val = written
    /\ jsonFile = (IF written = <<>> THEN OpenFile
                   ELSE Take(OpenFile, Len(OpenFile) - 2)) \o <<"\n", "]">>

\* C8 witness: a finalized store that got two or more items, the last one
\* ending in a string with a comma.
C8_Witness ==
  /\ storeState = "finalized"
  /\ Len(written) >= 2
  /\ written[Len(written)] = StoreItem3

\* C8 witness for N = 0: a store finalized without any item.
C8_WitnessEmpty == storeState = "finalized" /\ written = <<>>

\* C9: from initialisation until finalize the data file is an open array:
\* the line "[" followed by one line per item, each ending in a comma,
\* without a closing bracket, and it is not valid JSON; once finalize has
\* completed it is a valid JSON array.
C9_OpenUntilFinalize ==
  /\ storeState = "open" =>
       /\ Take(jsonFile, 2) = <<"[", "\n">>
       /\ \A i \in 1..Len(jsonFile) : jsonFile[i] # "]"
       /\ Cardinality({i \in 1..Len(jsonFile) : jsonFile[i] = "\n"})
            = 1 + Len(written)
       /\ \A i \in 3..Len(jsonFile) :
            jsonFile[i] = "\n" => jsonFile[i - 1] = ","
       /\ jsonFile[Len(jsonFile)] = "\n"
       /\ ~IsJsonArray(jsonFile)
  /\ storeState = "finalized" => IsJsonArray(jsonFile)

\* C9 witness: an open store after appends of two or more items.
C9_Witness == storeState = "open" /\ Len(written) >= 2

\* ------------------------------------------ clean_and_deduplicate_items
\* Characters the model's titles and ids are made of.
UpperLetters == {"A", "B", "H"}
WordChars ==
  UpperLetters
  \cup {"a", "b", "c", "d", "e", "h", "i", "l", "n", "o", "s", "t", "u", "x",
        "_"}
  \cup {"0", "1", "2", "3", "4", "5", "6", "7", "8", "9"}

\* What re.sub(r'[^\w\s-]', '', title) keeps.
SlugKeeps(c) == c \in WordChars \/ IsSpace(c) \/ c = "-"

RECURSIVE Filter(_)
\* The title without the characters the pattern removes.
Filter(s) ==
  IF s = <<>> THEN <<>>
  ELSE (IF SlugKeeps(Head(s)) THEN <<Head(s)>> ELSE <<>>) \o Filter(Tail(s))

RECURSIVE LStrip(_)
LStrip(s) == IF s # <<>> /\ IsSpace(Head(s)) THEN LStrip(Tail(s)) ELSE s

RECURSIVE RStrip(_)
RStrip(s) ==
  IF s # <<>> /\ IsSpace(s[Len(s)]) THEN RStrip(SubSeq(s, 1, Len(s) - 1)) ELSE s

\* str.strip()
Strip(s) == RStrip(LStrip(s))

\* str.lower() on one character.
LowerChar(c) ==
  IF c = "A" THEN "a" ELSE IF c = "B" THEN "b" ELSE IF c = "H" THEN "h" ELSE c

\* str.replace(' ', '-') on one character.
SpaceToHyphen(c) == IF c = " " THEN "-" ELSE c

\* re.sub(...).strip().lower().replace(' ', '-')[:30]
Slug(title) ==
  LET kept == Strip(Filter(title))
  IN  Take([i \in 1..Len(kept) |-> SpaceToHyphen(LowerChar(kept[i]))], SlugLimit)

RECURSIVE Decimal(_)
\* str(counter)
Decimal(n) ==
  LET digit == <<"0", "1", "2", "3", "4", "5", "6", "7", "8", "9">>[(n % 10) + 1]
  IN  IF n < 10 THEN <<digit>> ELSE Decimal(n \div 10) \o <<digit>>

\* existing_ids = {item.get('id') for item in existing_data if item.get('id')}
ExistingIds(existing) ==
  {IdOf(existing[i]) : i \in {j \in 1..Len(existing) : IdOf(existing[j]) # <<>>}}

\* The id an item without one is given: the slug of its title when it has
\* a title, else the first characters of a fresh uuid.
EnsureId(item, uuid) ==
  IF IdOf(item) # <<>> THEN item
  ELSE LET title == DictGet(item, "title", <<>>)
       IN  DictSet(item, "id",
                   IF title # <<>> THEN Slug(title) ELSE Take(uuid, TokenLen))

\* Mutant: a taken id is given the suffix after the first one.
FreeIdSkipsOne(id, base_id, counter, ids) ==
  IF id \in ids THEN base_id \o <<"-">> \o Decimal(counter + 1) ELSE id

RECURSIVE FreeId(_, _, _, _)
\* while item['id'] in existing_ids: item['id'] = f"{base_id}-{counter}"
FreeId(id, base_id, counter, ids) ==
  IF id \in ids
  THEN FreeId(base_id \o <<"-">> \o Decimal(counter), base_id, counter + 1, ids)
  ELSE id

RECURSIVE CleanFrom(_, _, _, _)
\* The loop over items from index i on, with the ids taken so far.
CleanFrom(items, i, ids, uuids) ==
  IF i > Len(items) THEN <<>>
  ELSE LET withId == EnsureId(items[i], uuids[i])
           id     == FreeId(IdOf(withId), IdOf(withId), 1, ids)
       IN  <<DictSet(withId, "id", id)>>
           \o CleanFrom(items, i + 1, ids \cup {id}, uuids)

\* clean_and_deduplicate_items(items, existing_data); uuids[i] is the uuid4
\* drawn for item i when it needs one.  The items are dicts.
CleanAndDeduplicate(items, existing, uuids) ==
  CleanFrom(items, 1, ExistingIds(existing), uuids)

\* New items: titles with the same slug, a title whose slug is empty, no
\* title and no id, given ids, an empty id, a title of two words.
NewItem1 == << <<"title", <<"A", " ", "b">>>> >>
NewItem2 == << <<"title", <<"a", "-", "b">>>> >>
NewItem3 == << <<"title", <<"!">>>> >>
NewItem4 == <<>>
NewItem5 == << <<"id", <<"a", "-", "b">>>> >>
NewItem6 == << <<"id", <<"a", "-", "b", "-", "1">>>> >>
NewItem7 == << <<"id", <<>>>>, <<"title", <<" ", "H", "!", " ">>>> >>
NewItem8 ==
  << <<"title", <<"H", "a", "n", "o", "i", " ", "H", "o", "u", "s", "e">>>> >>
NewItems ==
  {NewItem1, NewItem2, NewItem3, NewItem4, NewItem5, NewItem6, NewItem7,
   NewItem8}

\* uuid4 strings (their beginning): two agree on the characters kept.
Uuid1 == <<"1", "a", "2", "b", "3", "c", "4", "d", "-", "0">>
Uuid2 == <<"1", "a", "2", "b", "3", "c", "4", "d", "-", "1">>
Uuid3 == <<"9", "e", "8", "d", "7", "c", "6", "b", "-", "0">>
Uuids == {Uuid1, Uuid2, Uuid3}

\* Lists of existing items: none, ids that new items will collide with, an
\* item without id, an item whose id is the empty string, a token.
ExistingLists ==
  { <<>>,
    << NewItem5 >>,
    << NewItem5, NewItem6 >>,
    << NewItem1 >>,
    << << <<"id", <<>>>> >> >>,
    << << <<"id", Take(Uuid1, TokenLen)>> >> >> }

InitDedup ==
  /\ PipeIdle /\ StoreIdle /\ ParseIdle /\ SplitIdle /\ JobIdle
  /\ dItems \in UNION {[1..k -> NewItems] : k \in 0..MaxNewItems}
  /\ dExisting \in ExistingLists
  /\ dResult = <<>>
  /\ dPc = "call"

\* One call of clean_and_deduplicate_items.
DedupCall ==
  /\ dPc = "call"
  /\ \E uuids \in [1..Len(dItems) -> Uuids] :
       dResult' = CleanAndDeduplicate(dItems, dExisting, uuids)
  /\ dPc' = "done"
  /\ UNCHANGED <<dItems, dExisting, pipeVars, storeVars, parseVars,
                 splitVars, jobVars>>

NextDedup == DedupCall

\* clean_and_deduplicate_items on any new and existing items.
SpecDedup == InitDedup /\ [][NextDedup]_vars

\* C6: the ids of the returned items are pairwise distinct and differ from
\* the id of every existing item, and as many items are returned as were
\* given.
C6_DistinctDisjointSameCount ==
  dPc = "done" =>
    /\ Len(dResult) = Len(dItems)
    /\ DistinctIds(dResult)
    /\ \A i \in 1..Len(dResult) : \A j \in 1..Len(dExisting) :
         HasKey(dExisting[j], "id") => IdOf(dResult[i]) # IdOf(dExisting[j])

\* C7: every returned item carries a non-empty id.
C7_NonEmptyIds == dPc = "done" => AllHaveId(dResult)

\* --------------------------------------- claims on the pipeline callbacks
\* round(completed / total * 100) of Python: the nearest integer, a tie
\* going to the even one.
RoundPercent(completed, total) ==
  LET q == (completed * 100) \div total
      r == (completed * 100) % total
  IN  IF 2 * r < total THEN q
      ELSE IF 2 * r > total THEN q + 1
      ELSE IF q % 2 = 0 THEN q ELSE q + 1

\* C12: progress_callback is called once after each batch settles, and the
\* k-th call carries round(k / total * 100), the rounded percentage and not
\* the truncated one.
C12_ProgressIsRounded ==
  /\ Len(progressLog) = completedCount
  /\ \A k \in 1..Len(progressLog) :
       progressLog[k] = RoundPercent(k, nBatches)

\* The positions of the stream_callback calls made for batch b.
ChunkCallsOf(b) ==
  {k \in 1..Len(eventLog) :
     eventLog[k].kind = "chunk" /\ eventLog[k].batch = b}

\* The positions of the progress_callback calls made for batch b.
ProgressCallsOf(b) ==
  {k \in 1..Len(eventLog) :
     eventLog[k].kind = "progress" /\ eventLog[k].batch = b}

\* C13: once a batch has settled with a non-empty list, stream_callback has
\* been called exactly once for it, with exactly its items and before its
\* progress_callback call, whatever the other batches are doing; for a
\* batch that raised, returned nothing or has not settled there is no
\* stream_callback call.
C13_ChunkOncePerSuccess ==
  \A b \in Batches :
    IF pc[b] = "done" /\ outcome[b].kind = "return" /\ outcome[b].items # <<>>
    THEN /\ Cardinality(ChunkCallsOf(b)) = 1
         /\ \A k \in ChunkCallsOf(b) :
              /\ eventLog[k].items = outcome[b].items
              /\ ProgressCallsOf(b) # {}
              /\ \A j \in ProgressCallsOf(b) : k < j
    ELSE ChunkCallsOf(b) = {}

\* C13 witness: a batch has delivered its chunk while another call is still
\* in flight, and a batch that raised and one that returned nothing have
\* settled without a chunk.
C13_Witness ==
  /\ \E b \in Batches :
       /\ pc[b] = "done" /\ Succeeded(outcome[b])
       /\ ChunkCallsOf(b) # {}
  /\ \E b \in Batches : pc[b] = "inflight"
  /\ \E b \in Batches : pc[b] = "done" /\ outcome[b].kind = "raise"
  /\ runPc = "running"

\* C14: Provider.extract is called at most once for a batch, exactly once
\* for every batch that got a slot, and a batch that raised or returned
\* nothing is not sent again; when run is over every batch has had exactly
\* one call.
C14_OneCallPerBatch ==
  /\ \A b \in Batches :
       /\ calls[b] <= 1
       /\ pc[b] # "waiting" => calls[b] = 1
  /\ runPc # "running" => \A b \in Batches : calls[b] = 1

\* C14 witness: run has returned after one batch raised and another
\* returned an empty list.
C14_Witness ==
  /\ runPc = "returned"
  /\ \E b \in Batches : outcome[b].kind = "raise" /\ calls[b] = 1
  /\ \E b \in Batches :
       /\ outcome[b].kind = "return" /\ outcome[b].items = <<>>
       /\ calls[b] = 1

\* ------------------------------------------------------------ JSON values
\* What json.loads returns, and None: a tagged record.  s holds the
\* characters of a string or the digits of a number, xs the elements of a
\* list or the members [k, v] of a dict (in insertion order).
JNull == [t |-> "null", s |-> <<>>, xs |-> <<>>]
JStr(chars) == [t |-> "str", s |-> chars, xs |-> <<>>]
JNum(digits) == [t |-> "num", s |-> digits, xs |-> <<>>]
JArr(elems) == [t |-> "arr", s |-> <<>>, xs |-> elems]
JObj(members) == [t |-> "obj", s |-> <<>>, xs |-> members]

JFail == [ok |-> FALSE, val |-> JNull, pos |-> 0]

IsDigit(c) == c \in {"0", "1", "2", "3", "4", "5", "6", "7", "8", "9"}

\* d[k] = v while a dict is built: a repeated key keeps its place and takes
\* the later value.
MemberPut(members, k, v) ==
  IF \E i \in 1..Len(members) : members[i].k = k
  THEN [i \in 1..Len(members) |->
          IF members[i].k = k THEN [k |-> k, v |-> v] ELSE members[i]]
  ELSE Append(members, [k |-> k, v |-> v])

RECURSIVE ScanDigits(_, _, _)
\* The digits of a number from position i on.
ScanDigits(s, i, acc) ==
  IF IsDigit(CharAt(s, i)) THEN ScanDigits(s, i + 1, Append(acc, s[i]))
  ELSE [ok |-> TRUE, val |-> JNum(acc), pos |-> i]

RECURSIVE JValue(_, _)
RECURSIVE JElements(_, _, _)
RECURSIVE JMembers(_, _, _)

\* json.loads, one value at position i: a string, a number without sign,
\* fraction or exponent, null, a list or a dict.
JValue(s, i) ==
  LET c == CharAt(s, i) IN
  IF c = "\"" THEN
    LET r == ScanString(s, i + 1, <<>>) IN
    IF r.ok THEN [ok |-> TRUE, val |-> JStr(r.val), pos |-> r.pos] ELSE JFail
  ELSE IF c = "0" THEN [ok |-> TRUE, val |-> JNum(<<"0">>), pos |-> i + 1]
  ELSE IF IsDigit(c) THEN ScanDigits(s, i, <<>>)
  ELSE IF c = "n" THEN
    IF SubSeq(s, i, Min(i + 3, Len(s))) = <<"n", "u", "l", "l">>
    THEN [ok |-> TRUE, val |-> JNull, pos |-> i + 4] ELSE JFail
  ELSE IF c = "[" THEN
    LET j == SkipWs(s, i + 1) IN
    IF CharAt(s, j) = "]" THEN [ok |-> TRUE, val |-> JArr(<<>>), pos |-> j + 1]
    ELSE JElements(s, j, <<>>)
  ELSE IF c = "{" THEN
    LET j == SkipWs(s, i + 1) IN
    IF CharAt(s, j) = "}" THEN [ok |-> TRUE, val |-> JObj(<<>>), pos |-> j + 1]
    ELSE JMembers(s, j, <<>>)
  ELSE JFail

\* The elements of a list from position i up to the closing bracket.
JElements(s, i, acc) ==
  LET v == JValue(s, i) IN
  IF ~v.ok THEN JFail ELSE
  LET next == SkipWs(s, v.pos)
      got  == Append(acc, v.val)
  IN  IF CharAt(s, next) = "]"
      THEN [ok |-> TRUE, val |-> JArr(got), pos |-> next + 1]
      ELSE IF CharAt(s, next) = ","
      THEN JElements(s, SkipWs(s, next + 1), got)
      ELSE JFail

\* The members of a dict from position i up to the closing brace.
JMembers(s, i, acc) ==
  LET k == ParseString(s, i) IN
  IF ~k.ok THEN JFail ELSE
  LET colon == SkipWs(s, k.pos) IN
  IF CharAt(s, colon) # ":" THEN JFail ELSE
  LET v == JValue(s, SkipWs(s, colon + 1)) IN
  IF ~v.ok THEN JFail ELSE
  LET next == SkipWs(s, v.pos)
      got  == MemberPut(acc, k.val, v.val)
  IN  IF CharAt(s, next) = "}"
      THEN [ok |-> TRUE, val |-> JObj(got), pos |-> next + 1]
      ELSE IF CharAt(s, next) = ","
      THEN JMembers(s, SkipWs(s, next + 1), got)
      ELSE JFail

\* json.loads(s): one value with nothing but whitespace around it;
\* ok = FALSE stands for json.JSONDecodeError.
JsonLoads(s) ==
  LET v == JValue(s, SkipWs(s, 1)) IN
  IF v.ok /\ SkipWs(s, v.pos) > Len(s) THEN v ELSE JFail

\* ------------------------------------------------- extract_json_from_text
\* The (data, error) pair extract_json_from_text returns; an error is named
\* by the fixed part of its message.
NoError == "none"
Parsed(data, error) == [data |-> data, error |-> error]

\* What a caller may hand to extract_json_from_text: a string, None, a list
\* or dict that is already parsed, or some other object.
StrInput(text) == [kind |-> "str", text |-> text, value |-> JNull]
NoneInput == [kind |-> "none", text |-> <<>>, value |-> JNull]
StructInput(value) == [kind |-> "struct", text |-> <<>>, value |-> value]
OtherInput == [kind |-> "other", text |-> <<>>, value |-> JNull]

\* `not text`: None, the empty string, the empty list and the empty dict.
Falsy(input) ==
  \/ input.kind = "none"
  \/ input.kind = "str" /\ input.text = <<>>
  \/ input.kind = "struct" /\ input.value.xs = <<>>

\* str.find(c) and str.rfind(c): 0-based, -1 when c does not occur.
Find(s, c) ==
  LET hits == {i \in 1..Len(s) : s[i] = c}
  IN  IF hits = {} THEN -1 ELSE (CHOOSE i \in hits : \A j \in hits : i <= j) - 1

RFind(s, c) ==
  LET hits == {i \in 1..Len(s) : s[i] = c}
  IN  IF hits = {} THEN -1 ELSE (CHOOSE i \in hits : \A j \in hits : j <= i) - 1

\* s[a:b] of Python for 0 <= a and -1 <= b - 1 < len(s).
Slice(s, a, b) == SubSeq(s, a + 1, b)

\* The backquote character; a TLA+ string cannot hold it, so it is written
\* as a token of its own.
Backquote == "bq"

Fence == <<Backquote, Backquote, Backquote>>
JsonTag == <<"j", "s", "o", "n">>

\* Three backquotes start at position i.
FenceAt(s, i) == i >= 1 /\ i + 2 <= Len(s) /\ SubSeq(s, i, i + 2) = Fence

\* The position after an opening fence at p and its optional json tag.
AfterTag(s, p) ==
  IF p + 6 <= Len(s) /\ SubSeq(s, p + 3, p + 6) = JsonTag THEN p + 7 ELSE p + 3

\* The closing fences an opening fence at p can pair with.
Closers(s, p) == {c \in 1..Len(s) : FenceAt(s, c) /\ c >= AfterTag(s, p)}

\* re.search for a fence, (?:json)?, \s*, the group ([\s\S]*?), \s* and a
\* fence: the leftmost fence that has a closing fence after it; group 1 is
\* what lies between the tag and the nearest closing fence, without the
\* whitespace at either end.
MarkdownMatch(s) ==
  LET starts == {p \in 1..Len(s) : FenceAt(s, p) /\ Closers(s, p) # {}}
  IN  IF starts = {} THEN [found |-> FALSE, group |-> <<>>]
      ELSE LET p == CHOOSE x \in starts : \A y \in starts : x <= y
               c == CHOOSE x \in Closers(s, p) : \A y \in Closers(s, p) : x <= y
           IN  [found |-> TRUE,
                group |-> Strip(SubSeq(s, AfterTag(s, p), c - 1))]

RECURSIVE DropCommaBefore(_, _, _)
\* re.sub(r',\s*\]', ']', s) and re.sub(r',\s*\}', '}', s), from position i:
\* a comma followed by whitespace and the closing character goes away.
DropCommaBefore(s, i, close) ==
  IF i > Len(s) THEN <<>>
  ELSE IF s[i] = "," /\ CharAt(s, SkipWs(s, i + 1)) = close
  THEN <<close>> \o DropCommaBefore(s, SkipWs(s, i + 1) + 1, close)
  ELSE <<s[i]>> \o DropCommaBefore(s, i + 1, close)

\* Step 3: the outermost [...] or {...} of the text, trailing commas
\* repaired, handed to json.loads.
FromBrackets(text) ==
  LET start_list == Find(text, "[")
      end_list   == RFind(text, "]")
      start_obj  == Find(text, "{")
      end_obj    == RFind(text, "}")
      candidate  ==
        IF start_list # -1 /\ end_list # -1 /\ end_list > start_list
        THEN IF start_obj # -1
             THEN IF start_list < start_obj /\ end_list > end_obj
                  THEN Slice(text, start_list, end_list + 1)
                  ELSE IF start_obj < start_list
                  THEN Slice(text, start_obj, end_obj + 1)
                  ELSE Slice(text, start_list, end_list + 1)
             ELSE Slice(text, start_list, end_list + 1)
        ELSE IF start_obj # -1 /\ end_obj # -1 /\ end_obj > start_obj
        THEN Slice(text, start_obj, end_obj + 1)
        ELSE <<>>
      fixed == DropCommaBefore(DropCommaBefore(candidate, 1, "]"), 1, "}")
      v     == JsonLoads(fixed)
  IN  IF candidate # <<>>
      THEN IF v.ok THEN Parsed(v.val, NoError)
           ELSE Parsed(JNull, "Substring JSON decode error")
      ELSE Parsed(JNull, "No valid JSON structure found in text")

\* Steps 2 and 3: the whole text as JSON, else its bracketed part.
FromText(text) ==
  LET v == JsonLoads(text)
  IN  IF v.ok THEN Parsed(v.val, NoError) ELSE FromBrackets(text)

\* Mutant: a code block that does not parse is passed over and the rest of
\* the attempts run.
FromBlockFallThrough(group, text) ==
  LET v == JsonLoads(group)
  IN  IF v.ok THEN Parsed(v.val, NoError) ELSE FromText(text)

\* Step 1, once a code block was found: its text as JSON, or the error.
FromBlock(group, text) ==
  LET v == JsonLoads(group)
  IN  IF v.ok THEN Parsed(v.val, NoError)
      ELSE Parsed(JNull, "Markdown block JSON decode error")

\* extract_json_from_text(text)
ExtractJsonFromText(input) ==
  IF Falsy(input) THEN Parsed(JNull, "Empty input text")
  ELSE IF input.kind = "struct" THEN Parsed(input.value, NoError)
  ELSE IF input.kind # "str" THEN Parsed(JNull, "Invalid input type")
  ELSE LET text == Strip(input.text)
           m    == MarkdownMatch(text)
       IN  IF m.found THEN FromBlock(m.group, text) ELSE FromText(text)

\* -------------------------------------------------------- LiteLLMProvider
\* isinstance(value, list) and len(value) > 0 and isinstance(value[0], dict)
WrapsItems(value) ==
  value.t = "arr" /\ value.xs # <<>> /\ value.xs[1].t = "obj"

\* _normalize_output(data): a list as it is; of a dict the first value that
\* is a list starting with a dict, else the dict as the only item; [] for
\* anything else.
NormalizeOutput(data) ==
  IF data.t = "arr" THEN data.xs
  ELSE IF data.t = "obj"
  THEN LET hits == {i \in 1..Len(data.xs) : WrapsItems(data.xs[i].v)}
       IN  IF hits # {}
           THEN data.xs[CHOOSE i \in hits : \A j \in hits : i <= j].v.xs
           ELSE <<data>>
  ELSE <<>>

NotCalled == Parsed(JNull, "not called")

\* `if error: return []`, else `return self._normalize_output(data)`, for
\* the (data, error) pair p.
AfterParse(p) ==
  IF p.error # NoError
  THEN [raised |-> FALSE, items |-> <<>>, parsed |-> p]
  ELSE [raised |-> FALSE, items |-> NormalizeOutput(p.data), parsed |-> p]

\* The body of extract inside its try, after the request was built: the
\* completion fails (failed) or answers with content.
ExtractBody(failed, content) ==
  IF failed
  THEN [raised |-> TRUE, items |-> <<>>, parsed |-> NotCalled]
  ELSE IF content.kind = "none" \/ Strip(content.text) = <<>>
  THEN [raised |-> FALSE, items |-> <<>>, parsed |-> NotCalled]
  ELSE AfterParse(ExtractJsonFromText(content))

\* except Exception: logged, return [], for the outcome r of the body.
ExceptReturnsEmpty(r) ==
  IF r.raised THEN [raised |-> FALSE, items |-> <<>>, parsed |-> r.parsed]
  ELSE r

\* Mutant: extract without its `except Exception` clause.
ProviderExtractNoExcept(failed, content) == ExtractBody(failed, content)

\* LiteLLMProvider.extract: whatever is raised inside is logged and turned
\* into [].
ProviderExtract(failed, content) ==
  ExceptReturnsEmpty(ExtractBody(failed, content))

\* ------------------------------------------------------ responses
\* A list with one object: [{"a": "1"}]
TArr ==
  <<"[", "{", "\"", "a", "\"", ":", " ", "\"", "1", "\"", "}", "]">>

\* A single object without a list field: {"a": "1"}
TObj ==
  <<"{", "\"", "a", "\"", ":", " ", "\"", "1", "\"", "}">>

\* An object that wraps one list of objects: {"p": [{"a": "1"}]}
TWrapOne ==
  <<"{", "\"", "p", "\"", ":", " ", "[", "{", "\"", "a", "\"", ":", " ",
    "\"", "1", "\"", "}", "]", "}">>

\* An object with two lists of objects, the second the longer:
\* {"p": [{"a": "1"}], "q": [{"a": "2"}, {"a": "3"}]}
TWrapTwo ==
  <<"{", "\"", "p", "\"", ":", " ", "[", "{", "\"", "a", "\"", ":", " ",
    "\"", "1", "\"", "}", "]", ",", " ", "\"", "q", "\"", ":", " ", "[",
    "{", "\"", "a", "\"", ":", " ", "\"", "2", "\"", "}", ",", " ", "{",
    "\"", "a", "\"", ":", " ", "\"", "3", "\"", "}", "]", "}">>

\* A response cut off in the middle: [{"a":
TBad ==
  <<"[", "{", "\"", "a", "\"", ":">>

\* A list with a trailing comma: [{"a": "1"},]
TTrail ==
  <<"[", "{", "\"", "a", "\"", ":", " ", "\"", "1", "\"", "}", ",", "]">>

\* A valid list that follows the rest of the response:  [{"b": "2"}]
TOutside ==
  <<" ", "[", "{", "\"", "b", "\"", ":", " ", "\"", "2", "\"", "}", "]">>

\* Words ahead of the data: ok 
TProse ==
  <<"o", "k", " ">>

\* A number: 7
TNum ==
  <<"7">>

\* An object that is never closed around a complete list: {"p": [7]
TOpenObj ==
  <<"{", "\"", "p", "\"", ":", " ", "[", "7", "]">>

\* A list that is never closed around a complete object: [{"a": "1"}
TOpenArr ==
  <<"[", "{", "\"", "a", "\"", ":", " ", "\"", "1", "\"", "}">>

NewLine == <<"\n">>

\* What a response carries between its first and last word.
Inners ==
  {TArr, TObj, TWrapOne, TWrapTwo, TBad, TTrail, TNum, TOpenObj, TOpenArr,
   <<>>}

\* The ways a response presents it: bare, in a code block with or without
\* the json tag, or after a fence that is never closed.
Bodies ==
  Inners
  \cup {Fence \o NewLine \o t \o NewLine \o Fence : t \in Inners}
  \cup {Fence \o JsonTag \o NewLine \o t \o NewLine \o Fence : t \in Inners}
  \cup {Fence \o JsonTag \o NewLine \o t : t \in Inners}

\* The response texts: a body, words ahead of it or not, a list after it
\* or not; and texts of whitespace only.
ResponseTexts ==
  {pre \o body \o post :
     pre \in {<<>>, TProse}, body \in Bodies, post \in {<<>>, TOutside}}
  \cup {<<" ">>, <<"\n", " ">>}

ParseInputs ==
  {StrInput(t) : t \in ResponseTexts}
  \cup {NoneInput, OtherInput, StructInput(JArr(<<>>)), StructInput(JObj(<<>>)),
        StructInput(JArr(<<JObj(<<>>)>>))}

InitParse ==
  /\ PipeIdle /\ StoreIdle /\ DedupIdle /\ SplitIdle /\ JobIdle
  /\ pInput \in ParseInputs
  /\ pFailed = FALSE
  /\ pParsed = NotCalled
  /\ pItems = [raised |-> FALSE, items |-> <<>>]
  /\ pPc = "call"

\* One call of extract_json_from_text, as ManualBatchExtractor makes it on
\* the content of a response.
ParseCall ==
  /\ pPc = "call"
  /\ pParsed' = ExtractJsonFromText(pInput)
  /\ pPc' = "parsed"
  /\ UNCHANGED <<pInput, pFailed, pItems, pipeVars, storeVars, dedupVars,
                 splitVars, jobVars>>

\* The caller of extract gets r: the items, or the exception.
ProviderReturns(r) ==
  /\ pItems' = [raised |-> r.raised, items |-> r.items]
  /\ pParsed' = r.parsed

\* One call of LiteLLMProvider.extract; the content of a completion is a
\* string or None.
ProviderCall ==
  /\ pPc = "call"
  /\ pInput.kind \in {"str", "none"}
  /\ \E failed \in BOOLEAN :
       /\ pFailed' = failed
       /\ ProviderReturns(ProviderExtract(failed, pInput))
  /\ pPc' = "extracted"
  /\ UNCHANGED <<pInput, pipeVars, storeVars, dedupVars, splitVars,
                 jobVars>>

NextParse == ParseCall \/ ProviderCall

\* extract_json_from_text and LiteLLMProvider.extract, each called once on
\* a response.
SpecParse == InitParse /\ [][NextParse]_vars

\* ----------------------------------------------- claims on response parsing
\* The positions where three backquotes start.
FencePositions(t) ==
  {i \in 1..(Len(t) - 2) :
     t[i] = Backquote /\ t[i + 1] = Backquote /\ t[i + 2] = Backquote}

\* The first fence of t and the fences that can close it (the json tag
\* belongs to the opening fence).
OpeningFence(t) == CHOOSE i \in FencePositions(t) : \A j \in FencePositions(t) : i <= j
TagLen(t) ==
  LET o == OpeningFence(t)
  IN  IF o + 6 <= Len(t) /\ <<t[o + 3], t[o + 4], t[o + 5], t[o + 6]>> = JsonTag
      THEN 4 ELSE 0
ClosingFences(t) ==
  {j \in FencePositions(t) : j >= OpeningFence(t) + 3 + TagLen(t)}

\* t contains a fenced code block.
HasCodeBlock(t) == FencePositions(t) # {} /\ ClosingFences(t) # {}

\* The inner text of the first code block of t.
CodeBlockText(t) ==
  LET close == CHOOSE j \in ClosingFences(t) : \A k \in ClosingFences(t) : j <= k
  IN  Strip(SubSeq(t, OpeningFence(t) + 3 + TagLen(t), close - 1))

\* C15: when the response contains a fenced code block, the result is that
\* of the block alone: the value of its inner text when that is valid JSON,
\* the Markdown-block decode error otherwise, whatever the text around the
\* block would give.
C15_CodeBlockDecides ==
  (pPc = "parsed" /\ pInput.kind = "str" /\ HasCodeBlock(pInput.text)) =>
    LET v == JsonLoads(CodeBlockText(pInput.text))
    IN  pParsed = IF v.ok THEN Parsed(v.val, NoError)
                  ELSE Parsed(JNull, "Markdown block JSON decode error")

\* C15 witness: the block does not parse while a valid list follows it, and
\* the call ended with the Markdown-block error.
C15_Witness ==
  /\ pPc = "parsed" /\ pInput.kind = "str"
  /\ HasCodeBlock(pInput.text)
  /\ ~JsonLoads(CodeBlockText(pInput.text)).ok
  /\ FromText(Strip(pInput.text)).error = NoError
  /\ pParsed.error = "Markdown block JSON decode error"

\* C15 witness: the block parses although the text around it is not JSON.
C15_WitnessValid ==
  /\ pPc = "parsed" /\ pInput.kind = "str"
  /\ HasCodeBlock(pInput.text)
  /\ ~JsonLoads(pInput.text).ok
  /\ pParsed = Parsed(JArr(<<JObj(<<[k |-> <<"a">>, v |-> JStr(<<"1">>)]>>)>>),
                      NoError)

\* C16: for every input that is empty or holds whitespace only,
\* extract_json_from_text fails with "Empty input text".
C16_BlankIsEmptyInput ==
  (pPc = "parsed" /\ pInput.kind = "str" /\ AllSpace(pInput.text)) =>
    pParsed = Parsed(JNull, "Empty input text")

\* The members of a dict whose value is a non-empty list of objects.
ObjectLists(data) ==
  {i \in 1..Len(data.xs) :
     /\ data.xs[i].v.t = "arr"
     /\ data.xs[i].v.xs # <<>>
     /\ \A n \in 1..Len(data.xs[i].v.xs) : data.xs[i].v.xs[n].t = "obj"}

\* C17: when the response parsed to a single object, the items are the one
\* non-empty list of objects among its fields, the longest when there are
\* several, and the object itself as the only item when there is none.
C17_UnwrapsLongestList ==
  (pPc = "extracted" /\ pParsed.error = NoError /\ pParsed.data.t = "obj") =>
    LET data == pParsed.data
    IN  IF ObjectLists(data) = {} THEN pItems.items = <<data>>
        ELSE \E i \in ObjectLists(data) :
               /\ \A j \in ObjectLists(data) :
                    Len(data.xs[j].v.xs) <= Len(data.xs[i].v.xs)
               /\ pItems.items = data.xs[i].v.xs

\* C20: LiteLLMProvider.extract does not raise, and it returns [] when the
\* completion failed, when the response is None, empty or whitespace, and
\* when the response could not be parsed.
C20_ExtractNeverRaises ==
  pPc = "extracted" =>
    /\ ~pItems.raised
    /\ pFailed => pItems.items = <<>>
    /\ (pInput.kind = "none" \/ AllSpace(pInput.text)) => pItems.items = <<>>
    /\ (pParsed.error # NoError) => pItems.items = <<>>

\* C20 witness: the completion raised and extract returned [].
C20_Witness ==
  /\ pPc = "extracted" /\ pFailed
  /\ pInput = StrInput(TArr)
  /\ pItems = [raised |-> FALSE, items |-> <<>>]

\* -------------------------------------------------------- ContentSplitter
\* A block of at most this many characters is dropped as noise.
NoiseLimit == 300

\* The positions where sep occurs in s.
Occurrences(s, sep) ==
  {i \in 1..(Len(s) - Len(sep) + 1) : SubSeq(s, i, i + Len(sep) - 1) = sep}

RECURSIVE SplitAt(_, _, _, _)
\* str.split and re.split from position `from` on: the text is cut at the
\* leftmost match that starts at or after `from`; matches start at the
\* positions `cuts` and are `width` characters long.
SplitAt(s, from, cuts, width) ==
  LET rest == {i \in cuts : i >= from}
  IN  IF rest = {} THEN <<SubSeq(s, from, Len(s))>>
      ELSE LET i == CHOOSE x \in rest : \A y \in rest : x <= y
           IN  <<SubSeq(s, from, i - 1)>> \o SplitAt(s, i + width, cuts, width)

\* s.split(sep), and re.split(sep, s) for a pattern that is the literal sep.
StrSplit(s, sep) == SplitAt(s, 1, Occurrences(s, sep), Len(sep))

Paragraph == <<"\n", "\n">>
BracketLine == <<"\n", "[">>

RECURSIVE UnescapeNewlines(_)
\* ai_split_pattern.replace('\\n', '\n'): a backslash followed by n becomes
\* a newline.
UnescapeNewlines(p) ==
  IF Len(p) >= 2 /\ p[1] = "\\" /\ p[2] = "n"
  THEN <<"\n">> \o UnescapeNewlines(SubSeq(p, 3, Len(p)))
  ELSE IF p = <<>> THEN <<>>
  ELSE <<Head(p)>> \o UnescapeNewlines(Tail(p))

\* ai_split_pattern: None, a pattern re cannot compile, or a pattern that
\* matches the characters sep literally.
NoPattern == [kind |-> "none", sep |-> <<>>]
InvalidPattern == [kind |-> "invalid", sep |-> <<>>]
LiteralPattern(sep) == [kind |-> "literal", sep |-> sep]

\* The try block around re.split, before its except clause.
PatternSplit(markdown, pattern) ==
  IF pattern.kind = "none" THEN [raised |-> FALSE, blocks |-> <<>>]
  ELSE IF pattern.kind = "invalid" THEN [raised |-> TRUE, blocks |-> <<>>]
  ELSE [raised |-> FALSE,
        blocks |-> StrSplit(markdown, UnescapeNewlines(pattern.sep))]

\* Mutant: the failure of the pattern is not caught.
TryPatternNoExcept(markdown, pattern) == PatternSplit(markdown, pattern)

\* if ai_split_pattern: try: ... except Exception: logged; raw_blocks stays
\* empty when the pattern is missing or fails.
TryPattern(markdown, pattern) ==
  LET r == PatternSplit(markdown, pattern)
  IN  IF r.raised THEN [raised |-> FALSE, blocks |-> <<>>] ELSE r

\* The fallback: at every newline that a "[" follows when there is one,
\* else at the empty lines.
HeuristicSplit(markdown) ==
  IF Occurrences(markdown, BracketLine) # {}
  THEN SplitAt(markdown, 1, Occurrences(markdown, BracketLine), 1)
  ELSE StrSplit(markdown, Paragraph)

\* Mutant: an oversized paragraph is kept in one piece.
HardCutNot(current_chunk, max_chars, chunks) ==
  [loops |-> FALSE, chunks |-> chunks, current_chunk |-> current_chunk]

RECURSIVE HardCut(_, _, _)
\* while len(current_chunk) > max_chars: chunks.append(current_chunk[:max_chars]);
\* current_chunk = current_chunk[max_chars:].  With max_chars <= 0 the
\* slices leave a current_chunk that stays longer than max_chars, so the
\* loop does not end.
HardCut(current_chunk, max_chars, chunks) ==
  IF Len(current_chunk) <= max_chars
  THEN [loops |-> FALSE, chunks |-> chunks, current_chunk |-> current_chunk]
  ELSE IF max_chars <= 0
  THEN [loops |-> TRUE, chunks |-> chunks, current_chunk |-> current_chunk]
  ELSE HardCut(Drop(current_chunk, max_chars), max_chars,
               Append(chunks, Take(current_chunk, max_chars)))

\* if current_chunk: chunks.append(current_chunk.strip())
Flush(chunks, current_chunk) ==
  IF current_chunk # <<>> THEN Append(chunks, Strip(current_chunk)) ELSE chunks

RECURSIVE Repack(_, _, _, _, _)
\* The loop of _recursive_split over sub_blocks, from index k on.
Repack(sub_blocks, k, current_chunk, chunks, max_chars) ==
  IF k > Len(sub_blocks)
  THEN [loops |-> FALSE, chunks |-> Flush(chunks, current_chunk)]
  ELSE LET sub == sub_blocks[k] IN
       IF Len(current_chunk) + Len(sub) < max_chars
       THEN Repack(sub_blocks, k + 1, current_chunk \o sub \o Paragraph,
                   chunks, max_chars)
       ELSE LET cut == HardCut(sub \o Paragraph, max_chars,
                               Flush(chunks, current_chunk))
            IN  IF cut.loops THEN [loops |-> TRUE, chunks |-> <<>>]
                ELSE Repack(sub_blocks, k + 1, cut.current_chunk, cut.chunks,
                            max_chars)

\* _recursive_split(text, max_chars)
RecursiveSplit(text, max_chars) ==
  IF Len(text) <= max_chars THEN [loops |-> FALSE, chunks |-> <<text>>]
  ELSE Repack(StrSplit(text, Paragraph), 1, <<>>, <<>>, max_chars)

\* Mutant: a block of exactly the limit is kept.
IsNoiseBelowLimit(block) == Len(block) < NoiseLimit

\* if len(block) <= 300: continue
IsNoise(block) == Len(block) <= NoiseLimit

RECURSIVE CollectBlocks(_, _, _, _)
\* for block in raw_blocks, from index k on: strip, drop the noise, split
\* what is too long.
CollectBlocks(raw_blocks, k, final_blocks, max_chars) ==
  IF k > Len(raw_blocks)
  THEN [status |-> "returned", blocks |-> final_blocks]
  ELSE LET block == Strip(raw_blocks[k]) IN
       IF IsNoise(block)
       THEN CollectBlocks(raw_blocks, k + 1, final_blocks, max_chars)
       ELSE IF Len(block) > max_chars
       THEN LET r == RecursiveSplit(block, max_chars)
            IN  IF r.loops THEN [status |-> "loops", blocks |-> <<>>]
                ELSE CollectBlocks(raw_blocks, k + 1, final_blocks \o r.chunks,
                                   max_chars)
       ELSE CollectBlocks(raw_blocks, k + 1, Append(final_blocks, block),
                          max_chars)

\* split_markdown_to_blocks(markdown, max_chars, ai_split_pattern): the
\* blocks it returns, or that it raises, or that it never comes back.
SplitMarkdownToBlocks(markdown, max_chars, pattern) ==
  IF markdown = <<>> THEN [status |-> "returned", blocks |-> <<>>]
  ELSE LET try == TryPattern(markdown, pattern)
       IN  IF try.raised THEN [status |-> "raised", blocks |-> <<>>]
           ELSE CollectBlocks(IF try.blocks # <<>> THEN try.blocks
                              ELSE HeuristicSplit(markdown),
                              1, <<>>, max_chars)

\* A paragraph of n characters c.
Para(n, c) == [i \in 1..n |-> c]

\* The lengths of the paragraphs: well under the noise limit, half of it,
\* the limit itself, just over it.
ParaSizes == {40, 150, NoiseLimit, 310}

\* What stands between two paragraphs of a page.
Separators == {Paragraph, BracketLine, <<"\n">>}

\* The pages: three paragraphs, each of a letter of its own, and what
\* separates them; and the empty page.
SplitTexts ==
  {Para(a, "x") \o s1 \o Para(b, "y") \o s2 \o Para(c, "z") :
     a \in ParaSizes, b \in ParaSizes, c \in ParaSizes,
     s1 \in Separators, s2 \in Separators}
  \cup {<<>>}

\* The values of max_chars: none at all, less than a paragraph, less than
\* the noise limit, more than it.
MaxCharsValues == {0, 100, 200, 400}

\* The patterns: none, one that does not compile, the empty line written
\* with escaped newlines, and a character the pages do not hold.
SplitPatterns ==
  {NoPattern, InvalidPattern,
   LiteralPattern(<<"\\", "n", "\\", "n">>), LiteralPattern(<<"-">>)}

InitSplit ==
  /\ PipeIdle /\ StoreIdle /\ DedupIdle /\ ParseIdle /\ JobIdle
  /\ sText \in SplitTexts
  /\ sMaxChars \in MaxCharsValues
  /\ sPattern \in SplitPatterns
  /\ sResult = [status |-> "none", blocks |-> <<>>]
  /\ sPc = "call"

\* One call of split_markdown_to_blocks that comes back.
SplitCall ==
  /\ sPc = "call"
  /\ SplitMarkdownToBlocks(sText, sMaxChars, sPattern).status # "loops"
  /\ sResult' = SplitMarkdownToBlocks(sText, sMaxChars, sPattern)
  /\ sPc' = "done"
  /\ UNCHANGED <<sText, sMaxChars, sPattern, pipeVars, storeVars, dedupVars,
                 parseVars, jobVars>>

\* One call of split_markdown_to_blocks that never comes back.
SplitHang ==
  /\ sPc = "call"
  /\ SplitMarkdownToBlocks(sText, sMaxChars, sPattern).status = "loops"
  /\ sResult' = [status |-> "loops", blocks |-> <<>>]
  /\ sPc' = "hung"
  /\ UNCHANGED <<sText, sMaxChars, sPattern, pipeVars, storeVars, dedupVars,
                 parseVars, jobVars>>

NextSplit == SplitCall \/ SplitHang

SpecSplit == InitSplit /\ [][NextSplit]_vars

\* ------------------------------------------------- claims on the splitter
\* C11: every block split_markdown_to_blocks returns is at most max_chars
\* long, for every page and every max_chars, also the blocks made by
\* repacking paragraphs and by cutting a paragraph that is too long.
C11_BlocksWithinMaxChars ==
  (sPc = "done" /\ sResult.status = "returned") =>
    \A k \in 1..Len(sResult.blocks) : Len(sResult.blocks[k]) <= sMaxChars

\* C11 witness: a call has returned a block cut to exactly max_chars and a
\* block that holds two repacked paragraphs.
C11_Witness ==
  /\ sPc = "done" /\ sResult.status = "returned"
  /\ \E k \in 1..Len(sResult.blocks) :
       /\ Len(sResult.blocks[k]) = sMaxChars
       /\ Occurrences(sResult.blocks[k], <<"\n">>) = {}
  /\ \E k \in 1..Len(sResult.blocks) :
       Occurrences(sResult.blocks[k], Paragraph) # {}
  /\ \A k \in 1..Len(sResult.blocks) : Len(sResult.blocks[k]) <= sMaxChars

\* C19: when the pattern does not compile, split_markdown_to_blocks does
\* not raise and does exactly what the call without a pattern does for the
\* same page and max_chars.
C19_BadPatternFallsBack ==
  (sPc # "call" /\ sPattern = InvalidPattern) =>
    /\ sResult.status # "raised"
    /\ sResult = SplitMarkdownToBlocks(sText, sMaxChars, NoPattern)

\* C19 witness: a call with a pattern that does not compile has returned
\* several blocks, other blocks than a pattern without a match gives.
C19_Witness ==
  /\ sPc = "done" /\ sPattern = InvalidPattern
  /\ sResult.status = "returned"
  /\ Len(sResult.blocks) >= 2
  /\ sResult # SplitMarkdownToBlocks(sText, sMaxChars, LiteralPattern(<<"-">>))

\* ------------------------------------- StreamResultHandler, failing writes
\* What append_markdown may get.
MdContents == {<<"m">>}

\* How much of a text has reached the file when its write fails: nothing
\* (open failed) or the first half of it.
WrittenBeforeFailure(text) == {0, Len(text) \div 2}

\* append_data(items) whose write fails after k characters: the exception
\* is logged and the call returns.
StoreAppendFails(items, k) ==
  /\ storeState = "open"
  /\ items # <<>>
  /\ Len(written) + failures + Len(items) <= MaxStoreItems
  /\ jsonFile' = WriteAppend(jsonFile, Take(JsonStr(items), k))
  /\ failures' = failures + Len(items)
  /\ UNCHANGED <<storeState, written, mdFile, pipeVars, textVars, jobVars>>

\* append_markdown(content): content and an empty line are appended.
StoreAppendMarkdown(content) ==
  /\ storeState = "open"
  /\ Len(mdFile) + Len(content) + 2 <= Len(MdInit) + MaxMdChars
  /\ mdFile' = WriteAppend(mdFile, content \o <<"\n", "\n">>)
  /\ UNCHANGED <<jsonFile, storeState, written, failures, pipeVars, textVars,
                 jobVars>>

\* append_markdown(content) whose write fails after k characters.
StoreAppendMarkdownFails(content, k) ==
  /\ storeState = "open"
  /\ Len(mdFile) + Len(content) + 2 <= Len(MdInit) + MaxMdChars
  /\ mdFile' = WriteAppend(mdFile, Take(content \o <<"\n", "\n">>, k))
  /\ UNCHANGED <<jsonFile, storeState, written, failures, pipeVars, textVars,
                 jobVars>>

NextStoreFail ==
  \/ \E items \in StoreCalls : StoreAppend(items)
  \/ \E items \in StoreCalls :
       \E k \in WrittenBeforeFailure(JsonStr(items)) : StoreAppendFails(items, k)
  \/ \E content \in MdContents : StoreAppendMarkdown(content)
  \/ \E content \in MdContents :
       \E k \in WrittenBeforeFailure(content \o <<"\n", "\n">>) :
         StoreAppendMarkdownFails(content, k)
  \/ StoreFinalize

\* A store whose appends may fail at the disk, from its initialisation to
\* finalize; `written` holds the items of the appends that did not fail.
SpecStoreFail == InitStore /\ [][NextStoreFail]_vars

\* C18: a failed write of append_data or append_markdown does not stop the
\* store, and of the data only the items of the failed append are missing:
\* the finalized file is the JSON array of the items of the appends that
\* did not fail.
C18_OnlyFailedAppendIsLost ==
  storeState = "finalized" =>
    /\ ParseJsonArray(jsonFile).ok
    /\ ParseJsonArray(jsonFile).val = written

\* ------------------------------------------- claims on a hanging call
\* Batch b was sent to the Provider once and, its call having returned,
\* went through the rest of _process_batch: items to stream_callback, a
\* progress report, and the value gather holds for it.
Delivered(b) ==
  /\ pc[b] = "done"
  /\ calls[b] = 1
  /\ results[b] = BatchReturn(outcome[b])
  /\ Succeeded(outcome[b]) =>
       \E k \in 1..Len(eventLog) :
         /\ eventLog[k].kind = "chunk"
         /\ eventLog[k].batch = b
         /\ eventLog[k].items = outcome[b].items
  /\ \E k \in 1..Len(eventLog) :
       eventLog[k].kind = "progress" /\ eventLog[k].batch = b

\* Every batch but the one whose call hangs is through.
OthersDelivered == \A b \in Batches \ {stuck} : Delivered(b)

\* C21 as stated: whatever the size of the semaphore, a Provider call that
\* never returns leaves every other batch to get a slot, be sent, deliver
\* its items and report progress.
C21_OthersAlwaysDelivered == (stuck # 0) ~> OthersDelivered

\* C21: with a semaphore of at least two slots, a Provider call that never
\* returns leaves every other batch to get a slot, be sent once, deliver
\* its items through stream_callback and report progress, with the result
\* its own call gave; run itself never returns.
C21_OthersDeliveredWithSpareSlot ==
  /\ (stuck # 0 /\ concurrency >= 2) ~> OthersDelivered
  /\ [](stuck # 0 => runPc = "running")

\* Three batches, two slots, the call of one batch hanging in its slot and
\* the two others through.
C21_Witness ==
  /\ stuck # 0
  /\ concurrency >= 2
  /\ nBatches >= 3
  /\ pc[stuck] = "inflight"
  /\ OthersDelivered
  /\ \E b \in Batches : Succeeded(outcome[b])

\* ------------------------------------------------- callbacks that raise
\* What the task of a batch hands to gather when the callbacks it invoked
\* raised: an exception of stream_callback is caught by `except Exception`
\* (return []); an exception of progress_callback leaves the finally block
\* and replaces the return value.
BatchReturnRaising(o, chunkRaises, progressRaises) ==
  IF progressRaises THEN [exc |-> TRUE, items |-> <<>>]
  ELSE IF chunkRaises THEN [exc |-> FALSE, items |-> <<>>]
  ELSE BatchReturn(o)

\* Provider.extract of batch b completes with outcome o and a callback the
\* task then invokes raises: stream_callback (called on success only),
\* progress_callback, or both.  A stream_callback that raises has written
\* nothing.  The counter is incremented and the slot released all the same.
SettleRaising(b, o, chunkRaises, progressRaises) ==
  /\ pc[b] = "inflight"
  /\ b # stuck
  /\ chunkRaises \/ progressRaises
  /\ chunkRaises => Succeeded(o)
  /\ outcome' = [outcome EXCEPT ![b] = o]
  /\ IF Succeeded(o) /\ ~chunkRaises
     THEN /\ chunkLog' = Append(chunkLog, o.items)
          /\ jsonFile' = AppendData(jsonFile, o.items)
          /\ written' = written \o o.items
     ELSE UNCHANGED <<chunkLog, jsonFile, written>>
  /\ results' =
       [results EXCEPT ![b] = BatchReturnRaising(o, chunkRaises, progressRaises)]
  /\ completedCount' = Increment(completedCount)
  /\ progressLog' =
       Append(progressLog, Percent(Increment(completedCount), nBatches))
  /\ eventLog' = eventLog \o BatchEvents(b, o, Increment(completedCount))
  /\ raisedIn' = raisedIn
                   \cup (IF chunkRaises THEN {<<b, "chunk">>} ELSE {})
                   \cup (IF progressRaises THEN {<<b, "progress">>} ELSE {})
  /\ semValue' = Release(semValue)
  /\ pc' = [pc EXCEPT ![b] = AfterBatch(o)]
  /\ settleOrder' = Append(settleOrder, b)
  /\ UNCHANGED <<nBatches, concurrency, calls, stuck, runPc, returned,
                 storeState, mdFile, failures>>
  /\ UNCHANGED <<textVars, jobVars>>

\* asyncio.gather without return_exceptions: the first exception of a task
\* is raised to run at once; the other tasks are not cancelled.
RunRaise ==
  /\ runPc = "running"
  /\ \E b \in Batches : pc[b] = "done" /\ results[b].exc
  /\ runPc' = "raised"
  /\ returned' = <<>>
  /\ UNCHANGED <<nBatches, concurrency, semValue, pc, outcome, results,
                 completedCount, progressLog, chunkLog, settleOrder, calls,
                 eventLog, stuck, raisedIn>>
  /\ UNCHANGED <<storeVars, textVars, jobVars>>

NextCallbacks ==
  \/ Next
  \/ \E b \in Batches : \E o \in Outcomes : \E cr, pr \in BOOLEAN :
       SettleRaising(b, o, cr, pr)
  \/ RunRaise

\* ExtractionPipeline.run with callbacks that may raise.
SpecCallbacks == Init /\ [][NextCallbacks]_vars

\* The batches in whose handling a callback raised.
RaisedBatches == {r[1] : r \in raisedIn}

\* C22: an exception of stream_callback or progress_callback during one
\* batch does not abort the run: run does not raise, and when it returns
\* every batch in which no callback raised has its items in the result.
C22_CallbackFailureIsolated ==
  /\ runPc # "raised"
  /\ runPc = "returned" =>
       returned = Flatten([b \in Batches |->
                    IF b \in RaisedBatches
                    THEN [exc |-> FALSE, items |-> <<>>]
                    ELSE BatchReturn(outcome[b])])

\* ------------------------------------------------ claims on the counter
\* C25: the counter is incremented once per batch whatever the order in
\* which the tasks complete: it equals the number of finished batches,
\* the k-th progress_callback call carries the percentage of k completed
\* batches, the percentages never decrease, and once run has returned from
\* a run with at least one batch the last one is 100.
C25_CounterCountsEveryBatch ==
  /\ completedCount = Cardinality({b \in Batches : pc[b] = "done"})
  /\ Len(progressLog) = completedCount
  /\ \A k \in 1..Len(progressLog) :
       /\ progressLog[k] = Percent(k, nBatches)
       /\ k > 1 => progressLog[k - 1] <= progressLog[k]
  /\ (runPc = "returned" /\ nBatches >= 1) =>
       progressLog[Len(progressLog)] = 100

\* A returned run of three batches whose calls overlapped and completed
\* out of batch order.
C25_Witness ==
  /\ runPc = "returned"
  /\ nBatches = 3
  /\ concurrency >= 2
  /\ settleOrder[1] # 1
  /\ progressLog = <<33, 66, 100>>

\* ---------------------------------------------------- CrawlOrchestrator
\* '=' * n
Rule(n) == [i \in 1..n |-> "="]

\* The URL of the job and the markdown of its page p.
JobUrl == <<"u">>
PageMarkdown(p) == <<"m">> \o Decimal(p)

\* header of _process_page_result for page_idx = p - 1.
PageHeader(p, url) ==
  <<"\n", "\n">> \o Rule(RuleLen) \o <<" ", "P", "A", "G", "E", " ">>
  \o Decimal(p) \o <<" ">> \o Rule(RuleLen)
  \o <<"\n", "S", "O", "U", "R", "C", "E", " ", "U", "R", "L", ":", " ">>
  \o url \o <<"\n">> \o Rule(WideRuleLen) \o <<"\n", "\n">>

\* The methods class StreamResultHandler defines.
StorageMethods == {"__init__", "_init_files", "append_markdown",
                   "append_data", "finalize"}

\* storage.append_content(...) looks up a method the class does not
\* define: AttributeError.
AppendContentRaises == "append_content" \notin StorageMethods

\* What fetcher.fetch may do: a successful result, an unsuccessful result,
\* None, or an exception.
FetchOutcomes == {"ok", "failed", "none", "raise"}

\* Where _init_files may fail: nowhere, opening the .md file, or opening
\* the .json file after the .md file was written.
InitFailures == {"none", "md", "json"}

\* Where finalize may fail: nowhere, opening the .json file, or appending
\* the closing bracket after the tail was cut.
FinalizeFailures == {"none", "open", "append"}

NoResult ==
  [set |-> FALSE, success |-> FALSE, pages_crawled |-> 0, error |-> "",
   output_files |-> <<>>]

\* "success": pages_crawled > 0; saved_files has no part in it.
JobSuccess(pagesCrawled) == pagesCrawled > 0

\* Mutant: the storage is set up inside the try of run.
AfterInitFailureCaught == "finalize"

\* StreamResultHandler(url=config.url) stands before the try of run: what
\* _init_files raises leaves run.
AfterInitFailure == "raised"

\* last_error after the fetch: result.error_message, "Unknown fetch error"
\* for None, str(e) for an exception of fetch or of _process_page_result.
ErrorAfter(fetch) ==
  IF fetch = "ok" THEN "AttributeError: append_content"
  ELSE IF fetch = "failed" THEN "error_message"
  ELSE IF fetch = "none" THEN "Unknown fetch error"
  ELSE "fetch exception"

\* Mutant: every fetch counts as a crawled page.
PagesCrawledAfterAny(fetch, n) == n + 1

\* `if result and result.success: pages_crawled += 1`
PagesCrawledAfter(fetch, n) == IF fetch = "ok" THEN n + 1 ELSE n

\* Mutant: the except clause of run returns without finalizing.
AfterCaughtReturn == "returned"

\* `except Exception as e: ... last_error = str(e)` falls through to step
\* 4 of run.
AfterCaught == "finalize"

\* What one pass of the loop adds to the log: the fetch, and after a
\* successful fetch the call storage.append_content of
\* _process_page_result, which raises before anything is written.
PageEvents(p, fetch) ==
  <<[op |-> "fetch", page |-> p, ok |-> fetch = "ok"]>>
  \o (IF fetch = "ok"
      THEN <<[op |-> "append_content", page |-> p, ok |-> FALSE]>>
      ELSE <<>>)

InitCrawl ==
  /\ PipeIdle /\ StoreIdle /\ TextIdle /\ BatchIdle /\ SvcIdle
  /\ cMaxPages \in 0..MaxPages
  /\ cLlm \in BOOLEAN
  /\ cProxies \in 0..MaxProxies
  /\ cProxyIdx = 0
  /\ cPage = 0
  /\ cPagesCrawled = 0
  /\ cLastError = ""
  /\ cInitFailure = "none"
  /\ cLog = <<>>
  /\ cResult = NoResult
  /\ cPc = "start"

\* run, step 1: the storage is constructed (its two files created), the
\* pipeline and the site settings are set up.
OrchSetup(initFails) ==
  /\ cPc = "start"
  /\ cInitFailure' = initFails
  /\ IF initFails = "none"
     THEN /\ mdFile' = WriteTruncating(mdFile, MdInit)
          /\ jsonFile' = WriteTruncating(jsonFile, JsonInit)
          /\ storeState' = "open"
          /\ cPc' = "loop"
     ELSE /\ mdFile' = IF initFails = "json"
                       THEN WriteTruncating(mdFile, MdInit) ELSE mdFile
          /\ UNCHANGED <<jsonFile, storeState>>
          /\ cPc' = AfterInitFailure
  /\ UNCHANGED <<cMaxPages, cLlm, cProxies, cProxyIdx, cPage, cPagesCrawled,
                 cLastError, cLog, cResult, written, failures>>
  /\ UNCHANGED <<pipeVars, textVars, batchVars, svcVars>>

\* One pass of the crawl loop: the proxy is chosen and the page fetched.
\* After a successful fetch pages_crawled is incremented and
\* _process_page_result calls storage.append_content, which raises; the
\* exception, like one of fetch, is caught by the except of run.  After an
\* unsuccessful fetch the loop is left by break.  Either way the loop ends.
OrchPage(fetch) ==
  /\ cPc = "loop"
  /\ cPage < cMaxPages
  /\ AppendContentRaises
  /\ cProxyIdx' = IF cProxies > 0 THEN (cProxyIdx + 1) % cProxies
                  ELSE cProxyIdx
  /\ cLog' = cLog \o PageEvents(cPage + 1, fetch)
  /\ cPagesCrawled' = PagesCrawledAfter(fetch, cPagesCrawled)
  /\ cLastError' = ErrorAfter(fetch)
  /\ cPc' = IF fetch \in {"ok", "raise"} THEN AfterCaught ELSE "finalize"
  /\ UNCHANGED <<cMaxPages, cLlm, cProxies, cPage, cInitFailure, cResult>>
  /\ UNCHANGED <<pipeVars, storeVars, textVars, batchVars, svcVars>>

\* for p in range(config.max_pages) is exhausted.
OrchLoopEnd ==
  /\ cPc = "loop"
  /\ cPage >= cMaxPages
  /\ cPc' = "finalize"
  /\ UNCHANGED <<cMaxPages, cLlm, cProxies, cProxyIdx, cPage, cPagesCrawled,
                 cLastError, cInitFailure, cLog, cResult>>
  /\ UNCHANGED <<pipeVars, storeVars, textVars, batchVars, svcVars>>

\* run, step 4: saved_files = storage.finalize() and the returned dict.
\* finalize returns [] when an exception occurred inside it.
OrchFinalize(fails) ==
  /\ cPc = "finalize"
  /\ jsonFile' = IF fails = "none" THEN FinalizeFile(jsonFile)
                 ELSE IF fails = "append"
                 THEN Take(jsonFile, TruncatePos(jsonFile))
                 ELSE jsonFile
  /\ storeState' = IF fails = "none" THEN "finalized" ELSE storeState
  /\ cLog' = Append(cLog, [op |-> "finalize", page |-> 0,
                           ok |-> fails = "none"])
  /\ LET saved == IF fails = "none" THEN <<"md", "json">> ELSE <<>>
     IN  cResult' = [set |-> TRUE,
                     success |-> JobSuccess(cPagesCrawled),
                     pages_crawled |-> cPagesCrawled,
                     error |-> cLastError,
                     output_files |-> saved]
  /\ cPc' = "returned"
  /\ UNCHANGED <<cMaxPages, cLlm, cProxies, cProxyIdx, cPage, cPagesCrawled,
                 cLastError, cInitFailure, written, mdFile, failures>>
  /\ UNCHANGED <<pipeVars, textVars, batchVars, svcVars>>

NextCrawl ==
  \/ \E f \in InitFailures : OrchSetup(f)
  \/ \E f \in FetchOutcomes : OrchPage(f)
  \/ OrchLoopEnd
  \/ \E f \in FinalizeFailures : OrchFinalize(f)

\* One call of CrawlOrchestrator.run.
SpecCrawl == InitCrawl /\ [][NextCrawl]_vars

\* ------------------------------------------ claims on CrawlOrchestrator
\* C23: when finalize returns no file paths, the result of run reports the
\* job as failed, however many pages were crawled.
C23_FailedFinalizeFailsJob ==
  (cPc = "returned" /\ cResult.output_files = <<>>) =>
    cResult.success = FALSE

\* The pages fetched successfully, in the order of their fetches.
FetchedPages ==
  SelectSeq(cLog, LAMBDA e : e.op = "fetch" /\ e.ok)

\* What the content file holds when every fetched page was appended with
\* its header, in page order: the initial lines, then for each page the
\* header, the markdown and the empty line append_markdown adds.
ContentOfPages(pages) ==
  MdInit \o Concat([k \in 1..Len(pages) |->
                      PageHeader(pages[k].page, JobUrl)
                      \o PageMarkdown(pages[k].page) \o <<"\n", "\n">>])

\* The log entries that follow the successful fetch of a page when its
\* content is appended and the pipeline is run on it before anything else
\* is fetched.
PipelineFollows(k) ==
  /\ k + 1 < Len(cLog)
  /\ cLog[k + 1].op = "append_content"
  /\ cLog[k + 2].op = "pipeline"
  /\ cLog[k + 2].page = cLog[k].page

\* C24: once run has returned, the content file holds the header and the
\* markdown of every successfully fetched page, in page order, and with an
\* LLM config the pipeline was run on each such page right after its fetch.
C24_PagesAppendedThenExtracted ==
  cPc = "returned" =>
    /\ mdFile = ContentOfPages(FetchedPages)
    /\ cLlm =>
         \A k \in 1..Len(cLog) :
           (cLog[k].op = "fetch" /\ cLog[k].ok) => PipelineFollows(k)

\* C30: when the storage fails to create its files, run raises to its
\* caller: no page is fetched, no pipeline is run (so no Provider call is
\* made), finalize is not called and no result is returned.
C30_InitFailureIsFatal ==
  cInitFailure # "none" =>
    /\ cPc = "raised"
    /\ cLog = <<>>
    /\ cResult = NoResult

\* run has raised because the .json file could not be created, for a job
\* that asked for pages and extraction.
C30_Witness ==
  /\ cPc = "raised"
  /\ cInitFailure = "json"
  /\ cMaxPages >= 1
  /\ cLlm

\* ------------------------------------------- claims on same-title items
\* The items all carry the same non-empty title and no id.
SameTitleNoId(items) ==
  /\ items # <<>>
  /\ \A i \in 1..Len(items) :
       /\ ~HasKey(items[i], "id")
       /\ DictGet(items[i], "title", <<>>) # <<>>
       /\ DictGet(items[i], "title", <<>>) = DictGet(items[1], "title", <<>>)

\* slug for the first item, slug-(i-1) for the i-th.
NumberedSlug(slug, i) ==
  IF i = 1 THEN slug ELSE slug \o <<"-">> \o Decimal(i - 1)

FirstOf(t, c) ==
  IF \E i \in 1..Len(t) : t[i] = c
  THEN CHOOSE i \in 1..Len(t) : t[i] = c /\ \A j \in 1..(i - 1) : t[j] # c
  ELSE 0
LastOf(t, c) ==
  IF \E i \in 1..Len(t) : t[i] = c
  THEN CHOOSE i \in 1..Len(t) : t[i] = c /\ \A j \in (i + 1)..Len(t) : t[j] # c
  ELSE 0

\* t has an opener with a closer after it.
CompletePair(t, open, close) ==
  FirstOf(t, open) # 0 /\ LastOf(t, close) > FirstOf(t, open)

\* The text from the first opener to the last closer.
Span(t, open, close) == SubSeq(t, FirstOf(t, open), LastOf(t, close))

\* The span the bracket-substring step is to parse: "list" when the array
\* wraps the object or only the bracket pair is complete, "object" when the
\* object wraps the array or only the brace pair is complete, "any" when
\* the sentence does not decide (two pairs of which neither wraps the
\* other, or no pair).
OuterContainer(t) ==
  LET list == CompletePair(t, "[", "]")
      obj  == CompletePair(t, "{", "}")
  IN  IF list /\ ~obj THEN "list"
      ELSE IF obj /\ ~list THEN "object"
      ELSE IF list /\ obj /\ FirstOf(t, "[") < FirstOf(t, "{")
              /\ LastOf(t, "]") > LastOf(t, "}") THEN "list"
      ELSE IF list /\ obj /\ FirstOf(t, "{") < FirstOf(t, "[")
              /\ LastOf(t, "}") > LastOf(t, "]") THEN "object"
      ELSE "any"

\* The result of parsing a span once the commas before its closing
\* brackets and braces are dropped.
ParsedSpan(span) ==
  LET v == JsonLoads(DropCommaBefore(DropCommaBefore(span, 1, "]"), 1, "}"))
  IN  IF v.ok THEN Parsed(v.val, NoError)
      ELSE Parsed(JNull, "Substring JSON decode error")

\* The call reached the bracket-substring step: a text that is not blank,
\* holds no code block and does not parse as a whole.
ReachedBrackets ==
  /\ pPc = "parsed" /\ pInput.kind = "str"
  /\ Strip(pInput.text) # <<>>
  /\ ~HasCodeBlock(pInput.text)
  /\ ~JsonLoads(Strip(pInput.text)).ok

\* C27: when whole-text parsing fails, the bracket-substring step parses
\* the true outer container: the [...] span when the array wraps the object
\* or only the bracket pair is complete, the {...} span when the object
\* wraps the array or only the brace pair is complete.
C27_ParsesOuterContainer ==
  ReachedBrackets =>
    LET t == Strip(pInput.text)
    IN  /\ OuterContainer(t) = "list" => pParsed = ParsedSpan(Span(t, "[", "]"))
        /\ OuterContainer(t) = "object" =>
             pParsed = ParsedSpan(Span(t, "{", "}"))

\* The same with the texts left aside in which a brace is opened ahead of
\* the list and never closed: the code departs nowhere else.
OuterContainerButOpenBraceAhead ==
  (ReachedBrackets
   /\ ~(/\ OuterContainer(Strip(pInput.text)) = "list"
        /\ FirstOf(Strip(pInput.text), "{") # 0
        /\ FirstOf(Strip(pInput.text), "{") < FirstOf(Strip(pInput.text), "["))) =>
    C27_ParsesOuterContainer

\* ------------------------------------- the batching of ExtractionPipeline
RECURSIVE RangeFromWhole(_, _, _)
\* Mutant: a start is kept only when a whole batch of blocks follows it.
RangeFromWhole(i, stop, step) ==
  IF i + step > stop THEN <<>>
  ELSE <<i>> \o RangeFromWhole(i + step, stop, step)

RECURSIVE RangeFrom(_, _, _)
\* range(i, stop, step) for a positive step: i, i + step, ... below stop.
RangeFrom(i, stop, step) ==
  IF i >= stop THEN <<>> ELSE <<i>> \o RangeFrom(i + step, stop, step)

\* blocks[i:i + size] for 0 <= i and size > 0 (the end is cut to the list).
BlockSlice(blocks, i, size) == SubSeq(blocks, i + 1, Min(i + size, Len(blocks)))

RECURSIVE JoinBlocks(_)
\* "\n\n".join(blocks)
JoinBlocks(blocks) ==
  IF blocks = <<>> THEN <<>>
  ELSE IF Len(blocks) = 1 THEN blocks[1]
  ELSE blocks[1] \o <<"\n", "\n">> \o JoinBlocks(Tail(blocks))

\* batched_blocks of run: range raises ValueError for a step of zero and is
\* empty for a negative one.
BatchedBlocks(blocks, size) ==
  IF size = 0 THEN [raised |-> TRUE, batches |-> <<>>]
  ELSE IF size < 0 THEN [raised |-> FALSE, batches |-> <<>>]
  ELSE LET starts == RangeFrom(0, Len(blocks), size)
       IN  [raised |-> FALSE,
            batches |-> [j \in 1..Len(starts) |->
                           JoinBlocks(BlockSlice(blocks, starts[j], size))]]

\* The blocks of the model and the values of BATCH_SIZE.
BlockPool == {<<"a">>, <<"b", "c">>}
BatchSizes == -1..MaxBatchSize

InitBatch ==
  /\ PipeIdle /\ StoreIdle /\ TextIdle /\ CrawlIdle /\ SvcIdle
  /\ bBlocks \in UNION {[1..n -> BlockPool] : n \in 0..MaxBlocks}
  /\ bSize \in BatchSizes
  /\ bBatches = [raised |-> FALSE, batches |-> <<>>]
  /\ bPc = "call"

\* Step 2 of run: the blocks are grouped into batches.
BatchCall ==
  /\ bPc = "call"
  /\ bBatches' = BatchedBlocks(bBlocks, bSize)
  /\ bPc' = "done"
  /\ UNCHANGED <<bBlocks, bSize, pipeVars, storeVars, textVars, crawlVars,
                 svcVars>>

NextBatch == BatchCall

\* The batching step of ExtractionPipeline.run on any list of blocks.
SpecBatch == InitBatch /\ [][NextBatch]_vars

\* --------------------------------------------------- claims on batching
\* The least integer not below a / b, for b > 0.
CeilDiv(a, b) == (a + b - 1) \div b

\* The blocks of batch j (counted from 0) as the sentence gives them: the
\* indices j * size up to min((j + 1) * size, count) - 1, counted from 0.
BlocksOfBatch(blocks, j, size) ==
  [k \in 1..(Min((j + 1) * size, Len(blocks)) - j * size) |->
     blocks[j * size + k]]

\* C28: for a positive batch size the blocks are grouped into exactly
\* ceil(blockCount / batchSize) batches; batch j is made of the contiguous
\* blocks j * batchSize .. min((j + 1) * batchSize, blockCount) - 1 in
\* their order, joined by an empty line; every batch but the last holds
\* batchSize blocks and together the batches hold every block once.
C28_ContiguousBatches ==
  (bPc = "done" /\ bSize >= 1) =>
    /\ ~bBatches.raised
    /\ Len(bBatches.batches) = CeilDiv(Len(bBlocks), bSize)
    /\ \A j \in 0..(Len(bBatches.batches) - 1) :
         /\ bBatches.batches[j + 1] = JoinBlocks(BlocksOfBatch(bBlocks, j, bSize))
         /\ j < Len(bBatches.batches) - 1 =>
              Len(BlocksOfBatch(bBlocks, j, bSize)) = bSize
         /\ Len(BlocksOfBatch(bBlocks, j, bSize)) >= 1
    /\ Concat([j \in 1..Len(bBatches.batches) |->
                 BlocksOfBatch(bBlocks, j - 1, bSize)]) = bBlocks

\* Five blocks in batches of two: three batches, the last of one block.
C28_Witness ==
  /\ bPc = "done"
  /\ bSize = 2
  /\ Len(bBlocks) = 5
  /\ Len(bBatches.batches) = 3
  /\ bBatches.batches[3] = bBlocks[5]

\* ------------------------------------------------- claims on the noise
\* The pieces of the initial split of a page: by the pattern when it gives
\* any, else by the fallback.
InitialPieces(markdown, pattern) ==
  IF TryPattern(markdown, pattern).blocks # <<>>
  THEN TryPattern(markdown, pattern).blocks
  ELSE HeuristicSplit(markdown)

\* How often the letter c stands in the texts of a list.
LetterCount(texts, c) == Cardinality(Occurrences(Concat(texts), <<c>>))

\* The pieces whose trimmed length is above the limit, and the others.
LongPieces(pieces) ==
  SelectSeq(pieces, LAMBDA p : Len(Strip(p)) > NoiseLimit)
ShortPieces(pieces) ==
  SelectSeq(pieces, LAMBDA p : Len(Strip(p)) <= NoiseLimit)

\* C29: of the pieces of the initial split, those of at most 300 trimmed
\* characters are dropped, none of them is a returned block and none of
\* their text is in a returned block, and those of more than 300 are kept:
\* the returned blocks hold, letter by letter, what the longer pieces hold.
C29_NoiseDroppedOthersKept ==
  (sPc = "done" /\ sResult.status = "returned") =>
    LET pieces == InitialPieces(sText, sPattern)
        short  == ShortPieces(pieces)
    IN  /\ \A c \in {"x", "y", "z"} :
             LetterCount(sResult.blocks, c) = LetterCount(LongPieces(pieces), c)
        /\ \A k \in 1..Len(short) : \A j \in 1..Len(sResult.blocks) :
             sResult.blocks[j] # Strip(short[k])
        /\ LongPieces(pieces) # <<>> => sResult.blocks # <<>>

\* A page with a piece of exactly 300 characters and a longer one, split
\* with a max_chars under the noise limit: blocks came back.
C29_Witness ==
  /\ sPc = "done" /\ sResult.status = "returned"
  /\ \E k \in 1..Len(InitialPieces(sText, sPattern)) :
       Len(Strip(InitialPieces(sText, sPattern)[k])) = NoiseLimit
  /\ LongPieces(InitialPieces(sText, sPattern)) # <<>>
  /\ sMaxChars < NoiseLimit
  /\ sResult.blocks # <<>>

\* ------------------------------------------------------ claims: run ends
\* Every slot of the semaphore is either free or held by a task whose
\* Provider call is under way.
SlotsAccounted == semValue + Cardinality(InFlight) = concurrency

\* run has returned the flattened results, every batch sent once and every
\* slot back in the semaphore.
RunReturnedClean ==
  /\ runPc = "returned"
  /\ semValue = concurrency
  /\ \A b \in Batches : pc[b] = "done" /\ calls[b] = 1

\* C31: with a semaphore of at least one slot and every Provider call
\* returning or raising, run eventually returns, every batch having got a
\* slot; and a task gives its slot back on every way out (items, no items,
\* exception), so the free slots and the calls under way always add up to
\* the size of the semaphore.
C31_RunEventuallyReturns ==
  /\ (stuck = 0 /\ concurrency >= 1) ~> RunReturnedClean
  /\ [](SlotsAccounted)

\* Three batches through a single slot, one call returning items, one
\* returning nothing and one raising, and run returned.
C31_Witness ==
  /\ stuck = 0
  /\ concurrency = 1
  /\ nBatches = MaxBatches
  /\ RunReturnedClean
  /\ \E b \in Batches : Succeeded(outcome[b])
  /\ \E b \in Batches : outcome[b] = [kind |-> "return", items |-> <<>>]
  /\ \E b \in Batches : outcome[b].kind = "raise"

\* --------------------------------------------- claims: the splitter ends
\* C32: split_markdown_to_blocks comes back for every page and every
\* max_chars, max_chars = 0 and values under the noise limit included: no
\* call stays in the hard-cut loop of _recursive_split.
C32_SplitTerminates == sPc # "hung"

\* ----------------------------------------------- claims: finalize is last
\* The positions of the log at which storage.finalize() was called.
FinalizeCalls == {k \in 1..Len(cLog) : cLog[k].op = "finalize"}

\* The positions at which run called an append method of the storage.
AppendCalls ==
  {k \in 1..Len(cLog) : cLog[k].op \in {"append_content", "append_data"}}

\* C33: in a run that has returned, whether a fetch failed, the loop was
\* exhausted or an exception was raised inside the loop, finalize was
\* called exactly once and every append to the storage came before it; as
\* long as run has not returned from finalize, finalize was not called.
C33_FinalizeOnceAfterAppends ==
  /\ cPc = "returned" =>
       /\ Cardinality(FinalizeCalls) = 1
       /\ \A a \in AppendCalls : \A f \in FinalizeCalls : a < f
       /\ cLog[Len(cLog)].op = "finalize"
       /\ cResult.set
  /\ cPc # "returned" => FinalizeCalls = {}

\* A run that returned after the exception raised inside the loop by the
\* append of its first page: fetch, append, finalize.
C33_Witness ==
  /\ cPc = "returned"
  /\ Len(cLog) = 3
  /\ cLog[1].op = "fetch" /\ cLog[1].ok
  /\ cLog[2].op = "append_content"
  /\ cLog[3].op = "finalize"
  /\ cLastError = ErrorAfter("ok")

\* ------------------------------------------------- claims: pages fetched
\* The fetches of the run, in the order they were made.
Fetches == SelectSeq(cLog, LAMBDA e : e.op = "fetch")

\* C38: run fetches one page after the other, page 1 first, and at most
\* max_pages of them; after a fetch that did not succeed no further page is
\* fetched; pages_crawled, in the loop and in the returned result, is the
\* number of successful fetches.
C38_FetchesBoundedAndCounted ==
  /\ Len(Fetches) <= cMaxPages
  /\ \A k \in 1..Len(Fetches) : Fetches[k].page = k
  /\ \A k \in 1..Len(Fetches) : ~Fetches[k].ok => k = Len(Fetches)
  /\ cPagesCrawled = Len(FetchedPages)
  /\ cPc = "returned" => cResult.pages_crawled = Len(FetchedPages)

\* A job of two pages has returned after a first fetch that succeeded: one
\* page crawled.
C38_Witness ==
  /\ cPc = "returned"
  /\ cMaxPages = MaxPages
  /\ Len(Fetches) = 1
  /\ Fetches[1].ok
  /\ cResult.pages_crawled = 1

\* A job has returned after a fetch that did not succeed: nothing crawled,
\* nothing fetched after it.
C38_WitnessFailed ==
  /\ cPc = "returned"
  /\ cMaxPages = MaxPages
  /\ Len(Fetches) = 1
  /\ ~Fetches[1].ok
  /\ cResult.pages_crawled = 0

\* ------------------------------------------------ claims: no empty block
\* C34: every block split_markdown_to_blocks returns is a non-empty
\* string, the blocks left over by repacking and by cutting an oversized
\* paragraph included.
C34_BlocksNonEmpty ==
  (sPc = "done" /\ sResult.status = "returned") =>
    \A k \in 1..Len(sResult.blocks) : sResult.blocks[k] # <<>>

\* ------------------------------------------ ExtractionPipeline.run, whole
\* Mutant: a run without blocks still counts one batch.
TotalBatchesAtLeastOne(batched_blocks) ==
  IF batched_blocks = <<>> THEN 1 ELSE Len(batched_blocks)

\* total_batches = len(batched_blocks)
TotalBatches(batched_blocks) == Len(batched_blocks)

\* The pages run is given: the empty page, pages of nothing but pieces of
\* at most 300 characters, and pages with one or two longer pieces.
RunPages ==
  {<<>>,
   Para(40, "x"),
   Para(NoiseLimit, "x"),
   Para(150, "x") \o Paragraph \o Para(NoiseLimit, "y"),
   Para(310, "x"),
   Para(310, "x") \o Paragraph \o Para(40, "y"),
   Para(310, "x") \o Paragraph \o Para(310, "y")}

\* The values of MAX_CHARS_PER_BLOCK: under and over the noise limit.
RunMaxChars == {200, 400}

\* The state in which run is called: the page, the configuration, a store
\* that is open, and nothing yet split, batched or sent.
InitRun ==
  /\ StoreInit /\ DedupIdle /\ ParseIdle /\ CrawlIdle /\ SvcIdle
  /\ sText \in RunPages
  /\ sMaxChars \in RunMaxChars
  /\ sPattern = NoPattern
  /\ sResult = [status |-> "none", blocks |-> <<>>]
  /\ sPc = "call"
  /\ bBlocks = <<>>
  /\ bSize \in 1..MaxBatchSize
  /\ bBatches = [raised |-> FALSE, batches |-> <<>>]
  /\ bPc = "call"
  /\ nBatches = 0
  /\ concurrency \in 1..MaxConcurrency
  /\ semValue = concurrency
  /\ pc = <<>>
  /\ outcome = <<>>
  /\ results = <<>>
  /\ completedCount = 0
  /\ progressLog = <<>>
  /\ chunkLog = <<>>
  /\ settleOrder = <<>>
  /\ calls = <<>>
  /\ eventLog = <<>>
  /\ stuck = 0
  /\ raisedIn = {}
  /\ runPc = "idle"
  /\ returned = <<>>

\* run, steps 1 and 2 and the start of step 3: the page is split, the
\* blocks are batched, the semaphore and the counter are made and one task
\* per batch is handed to gather.
RunStart ==
  /\ runPc = "idle"
  /\ sResult' = SplitMarkdownToBlocks(sText, sMaxChars, sPattern)
  /\ sPc' = "done"
  /\ bBlocks' = sResult'.blocks
  /\ bBatches' = BatchedBlocks(bBlocks', bSize)
  /\ bPc' = "done"
  /\ nBatches' = TotalBatches(bBatches'.batches)
  /\ pc' = [b \in 1..nBatches' |-> "waiting"]
  /\ outcome' = [b \in 1..nBatches' |-> Pending]
  /\ results' = [b \in 1..nBatches' |-> [exc |-> FALSE, items |-> <<>>]]
  /\ calls' = [b \in 1..nBatches' |-> 0]
  /\ runPc' = "running"
  /\ UNCHANGED <<sText, sMaxChars, sPattern, bSize, concurrency, semValue,
                 completedCount, progressLog, chunkLog, settleOrder,
                 eventLog, stuck, raisedIn, returned>>
  /\ UNCHANGED <<storeVars, dedupVars, parseVars, crawlVars, svcVars>>

NextRun == RunStart \/ Next

\* One call of ExtractionPipeline.run on a page, from the split to the
\* returned list, followed by storage.finalize().
SpecRun == InitRun /\ [][NextRun]_vars

\* ------------------------------------------------- claims: nothing to do
\* run found no block in the page.
NoBlocks == runPc # "idle" /\ sResult.blocks = <<>>

\* C35: when the split yields no blocks (the page is empty or each of its
\* pieces has at most 300 characters) run makes no Provider call, calls
\* neither stream_callback nor progress_callback and returns the empty
\* list; a percentage is only ever computed for a positive number of
\* batches.
C35_NoBlocksNoCalls ==
  /\ NoBlocks =>
       /\ nBatches = 0
       /\ calls = <<>>
       /\ eventLog = <<>> /\ chunkLog = <<>> /\ progressLog = <<>>
       /\ completedCount = 0
       /\ written = <<>>
       /\ runPc \in {"running", "returned"}
       /\ returned = <<>>
  /\ progressLog # <<>> => nBatches > 0

\* run has returned from a page that is not empty and whose pieces are
\* all of at most 300 characters.
C35_Witness ==
  /\ NoBlocks
  /\ sText # <<>>
  /\ \E k \in 1..Len(sText) : sText[k] = "y"
  /\ runPc = "returned"

\* run has returned from the empty page.
C35_WitnessEmpty == NoBlocks /\ sText = <<>> /\ runPc = "returned"

\* ------------------------------------------- JobService, JobQueueWorker
\* The callers of enqueue_job.
Callers == 1..MaxCallers

\* The ids of the rows whose status is PENDING.
PendingIds(jobs) == {j \in 1..Len(jobs) : jobs[j].status = "pending"}

\* Mutant: the pending jobs are ordered by created_at DESC.
NewestPending(jobs) ==
  {j \in PendingIds(jobs) :
     \A k \in PendingIds(jobs) : jobs[j].created_at >= jobs[k].created_at}

\* get_next_pending_job: pending_jobs[0] of `SELECT ... WHERE status =
\* 'pending' ORDER BY created_at ASC`: the pending row of the least
\* created_at.
OldestPending(jobs) ==
  {j \in PendingIds(jobs) :
     \A k \in PendingIds(jobs) : jobs[j].created_at <= jobs[k].created_at}

\* update_job_status(job_id, status): UPDATE jobs SET status = ... WHERE
\* id = job_id.
UpdateJobStatus(jobs, job_id, status) ==
  [jobs EXCEPT ![job_id].status = status]

\* What _execute_job may meet: a result with success, a result without,
\* or an exception, which it turns into {"success": False, "error": ...}.
CrawlOutcomes == {"success", "failure", "exception"}

\* result.get("success")
ResultSuccess(o) == o = "success"

\* Mutant: a job that did not succeed is put back in the queue.
StatusAfterRequeue(success) == IF success THEN "completed" ELSE "pending"

\* complete_job after a result with success, fail_job otherwise.
StatusAfter(success) == IF success THEN "completed" ELSE "failed"

\* The worker thread has been started on an empty table; no caller of
\* enqueue_job holds a record.
InitWorker ==
  /\ PipeIdle /\ StoreIdle /\ TextIdle /\ BatchIdle /\ CrawlIdle /\ FetchIdle
  /\ qJobs = <<>>
  /\ qClock = 0
  /\ qRecord = [c \in Callers |-> 0]
  /\ wPc = "top"
  /\ wJob = 0
  /\ wSuccess = FALSE
  /\ wRunning = TRUE
  /\ wLog = <<>>

\* enqueue_job, first line: JobRecord(settings=settings) takes created_at
\* from datetime.now(), which has moved on since the last reading.
EnqueueCreate(c) ==
  /\ qRecord[c] = 0
  /\ Len(qJobs) + Cardinality({d \in Callers : qRecord[d] # 0}) < MaxJobs
  /\ qClock' = qClock + 1
  /\ qRecord' = [qRecord EXCEPT ![c] = qClock']
  /\ UNCHANGED <<qJobs, wPc, wJob, wSuccess, wRunning, wLog>>
  /\ UNCHANGED <<pipeVars, storeVars, textVars, batchVars, crawlVars,
                 fetchVars>>

\* enqueue_job, second line: repository.add_job inserts the row; its id is
\* the next rowid.
EnqueueInsert(c) ==
  /\ qRecord[c] # 0
  /\ qJobs' = Append(qJobs, [status |-> "pending", created_at |-> qRecord[c]])
  /\ qRecord' = [qRecord EXCEPT ![c] = 0]
  /\ UNCHANGED <<qClock, wPc, wJob, wSuccess, wRunning, wLog>>
  /\ UNCHANGED <<pipeVars, storeVars, textVars, batchVars, crawlVars,
                 fetchVars>>

\* JobQueueWorker.stop, called from closeEvent.
WorkerStop ==
  /\ wRunning
  /\ wRunning' = FALSE
  /\ UNCHANGED <<qJobs, qClock, qRecord, wPc, wJob, wSuccess, wLog>>
  /\ UNCHANGED <<pipeVars, storeVars, textVars, batchVars, crawlVars,
                 fetchVars>>

\* `while self.is_running:` is true and get_next_pending_job finds a job.
WorkerPoll(j) ==
  /\ wPc = "top"
  /\ wRunning
  /\ j \in OldestPending(qJobs)
  /\ wJob' = j
  /\ wLog' = Append(wLog, [op |-> "poll", job |-> j,
                           pending |-> PendingIds(qJobs)])
  /\ wPc' = "start"
  /\ UNCHANGED <<qJobs, qClock, qRecord, wSuccess, wRunning>>
  /\ UNCHANGED <<pipeVars, storeVars, textVars, batchVars, crawlVars,
                 fetchVars>>

\* `while self.is_running:` is true and get_next_pending_job returns None.
WorkerPollNone ==
  /\ wPc = "top"
  /\ wRunning
  /\ PendingIds(qJobs) = {}
  /\ wPc' = "sleep"
  /\ UNCHANGED <<qJobs, qClock, qRecord, wJob, wSuccess, wRunning, wLog>>
  /\ UNCHANGED <<pipeVars, storeVars, textVars, batchVars, crawlVars,
                 fetchVars>>

\* `while self.is_running:` is false: the loop is left.
WorkerExit ==
  /\ wPc = "top"
  /\ ~wRunning
  /\ wPc' = "stopped"
  /\ UNCHANGED <<qJobs, qClock, qRecord, wJob, wSuccess, wRunning, wLog>>
  /\ UNCHANGED <<pipeVars, storeVars, textVars, batchVars, crawlVars,
                 fetchVars>>

\* job_started.emit and job_service.start_job(job.id).
WorkerStart ==
  /\ wPc = "start"
  /\ qJobs' = UpdateJobStatus(qJobs, wJob, "running")
  /\ wPc' = "execute"
  /\ UNCHANGED <<qClock, qRecord, wJob, wSuccess, wRunning, wLog>>
  /\ UNCHANGED <<pipeVars, storeVars, textVars, batchVars, crawlVars,
                 fetchVars>>

\* result = loop.run_until_complete(self._execute_job(job))
WorkerExecute(o) ==
  /\ wPc = "execute"
  /\ wSuccess' = ResultSuccess(o)
  /\ wLog' = Append(wLog, [op |-> "execute", job |-> wJob,
                           pending |-> {}])
  /\ wPc' = "record"
  /\ UNCHANGED <<qJobs, qClock, qRecord, wJob, wRunning>>
  /\ UNCHANGED <<pipeVars, storeVars, textVars, batchVars, crawlVars,
                 fetchVars>>

\* complete_job or fail_job, and the signal that goes with it.
WorkerRecord ==
  /\ wPc = "record"
  /\ qJobs' = UpdateJobStatus(qJobs, wJob, StatusAfter(wSuccess))
  /\ wPc' = "sleep"
  /\ UNCHANGED <<qClock, qRecord, wJob, wSuccess, wRunning, wLog>>
  /\ UNCHANGED <<pipeVars, storeVars, textVars, batchVars, crawlVars,
                 fetchVars>>

\* loop.run_until_complete(asyncio.sleep(3)), back to the top of the loop.
WorkerSleep ==
  /\ wPc = "sleep"
  /\ wPc' = "top"
  /\ wJob' = 0
  /\ UNCHANGED <<qJobs, qClock, qRecord, wSuccess, wRunning, wLog>>
  /\ UNCHANGED <<pipeVars, storeVars, textVars, batchVars, crawlVars,
                 fetchVars>>

\* The steps of the worker thread.
WorkerStep ==
  \/ \E j \in 1..MaxJobs : WorkerPoll(j)
  \/ WorkerPollNone
  \/ WorkerExit
  \/ WorkerStart
  \/ \E o \in CrawlOutcomes : WorkerExecute(o)
  \/ WorkerRecord
  \/ WorkerSleep

NextWorker ==
  \/ \E c \in Callers : EnqueueCreate(c)
  \/ \E c \in Callers : EnqueueInsert(c)
  \/ WorkerStop
  \/ WorkerStep

\* The worker thread, once started, keeps running, and a crawl comes to an
\* end.
SpecWorker == InitWorker /\ [][NextWorker]_vars /\ WF_vars(WorkerStep)

\* ------------------------------------------------- claims on the worker
\* The jobs whose status is RUNNING.
RunningIds == {j \in 1..Len(qJobs) : qJobs[j].status = "running"}

\* C36: a job is RUNNING while the worker executes it and until it records
\* the outcome; a job that is RUNNING stays so only until it is COMPLETED or
\* FAILED, which always comes, whether the crawl gave a result with
\* success, one without, or raised; and a job that has left PENDING never
\* is PENDING again.
C36_StartedJobsAreSettled ==
  /\ [](wPc \in {"execute", "record"} => qJobs[wJob].status = "running")
  /\ (RunningIds # {}) ~> (RunningIds = {})
  /\ [][\A j \in 1..Len(qJobs) :
          /\ qJobs[j].status # "pending" => qJobs'[j].status # "pending"
          /\ qJobs[j].status = "running" =>
               qJobs'[j].status \in {"running", "completed", "failed"}
          /\ qJobs[j].status \in {"completed", "failed"} =>
               qJobs'[j].status = qJobs[j].status]_vars

\* The table holds a job completed after a crawl with success and a job
\* failed after a crawl that raised or gave no success, and none running.
C36_Witness ==
  /\ \E j \in 1..Len(qJobs) : qJobs[j].status = "completed"
  /\ \E j \in 1..Len(qJobs) : qJobs[j].status = "failed"
  /\ \A j \in 1..Len(qJobs) : qJobs[j].status # "running"
  /\ Len(SelectSeq(wLog, LAMBDA e : e.op = "execute")) >= 2

\* The executions and the polls of the log.
Executions == SelectSeq(wLog, LAMBDA e : e.op = "execute")
Polls == SelectSeq(wLog, LAMBDA e : e.op = "poll")

\* C37: the worker has at most one job RUNNING at a time; the job a poll
\* hands it is a pending job no younger (by created_at) than any job
\* pending at that poll; and no job is executed twice, however the calls
\* of enqueue_job fall between the steps of the worker.
C37_OldestFirstAtMostOnce ==
  /\ Cardinality(RunningIds) <= 1
  /\ \A k \in 1..Len(Polls) :
       /\ Polls[k].job \in Polls[k].pending
       /\ \A j \in Polls[k].pending :
            qJobs[Polls[k].job].created_at <= qJobs[j].created_at
  /\ \A k, m \in 1..Len(Executions) :
       k # m => Executions[k].job # Executions[m].job

\* Two callers: the job created first was added second and both were
\* pending at the poll; the worker executed the one created first, then
\* the other.
C37_Witness ==
  /\ Len(qJobs) >= 2
  /\ qJobs[2].created_at < qJobs[1].created_at
  /\ Len(Polls) >= 2
  /\ Polls[1].pending = {1, 2}
  /\ Len(Executions) = 2
  /\ Executions[1].job = 2
  /\ Executions[2].job = 1

\* -------------------------------------------------------- PageFetcher
\* What crawler.arun may do: a result with success, a result without, or
\* one of two exceptions.
ArunOutcomes == {"ok", "failed", "timeout", "error"}
ArunExceptions == {"timeout", "error"}

\* Mutant: magic is passed on every attempt.
CurrentMagicAlways(magic_mode, attempt) == magic_mode

\* current_magic = magic_mode if attempt == 0 else False
CurrentMagic(magic_mode, attempt) == IF attempt = 0 THEN magic_mode ELSE FALSE

\* attempt == CRAWL_CONFIG["RETRY_ATTEMPTS"] - 1
IsLastAttempt(attempt) == attempt = RetryAttempts - 1

NoFetchResult == [kind |-> "pending", exc |-> ""]

\* _execute_with_retry is called, with or without magic mode.
InitFetch ==
  /\ PipeIdle /\ StoreIdle /\ TextIdle /\ BatchIdle /\ CrawlIdle /\ QueueIdle
  /\ fMagic \in BOOLEAN
  /\ fAttempt = 0
  /\ fLog = <<>>
  /\ fResult = NoFetchResult
  /\ fPc = "enter"

\* `async with AsyncWebCrawler(config=browser_conf) as crawler:` the
\* browser starts, or entering raises.
FetchEnter(started) ==
  /\ fPc = "enter"
  /\ IF started
     THEN fPc' = "loop" /\ UNCHANGED fResult
     ELSE fPc' = "raised" /\ fResult' = [kind |-> "raised", exc |-> "start"]
  /\ UNCHANGED <<fMagic, fAttempt, fLog>>
  /\ UNCHANGED <<pipeVars, storeVars, textVars, batchVars, crawlVars,
                 queueVars>>

\* One pass of `for attempt in range(RETRY_ATTEMPTS)`: crawler.arun is
\* awaited; a result with success is returned; a result without goes on
\* to the next attempt at once; an exception is raised again on the last
\* attempt and is followed by a sleep on the others.
FetchAttempt(o) ==
  /\ fPc = "loop"
  /\ fAttempt < RetryAttempts
  /\ fLog' = Append(fLog, [attempt |-> fAttempt,
                           magic |-> CurrentMagic(fMagic, fAttempt),
                           outcome |-> o])
  /\ IF o = "ok"
     THEN /\ fResult' = [kind |-> "result", exc |-> ""]
          /\ fPc' = "returned"
          /\ UNCHANGED fAttempt
     ELSE IF o = "failed"
     THEN /\ fAttempt' = fAttempt + 1
          /\ UNCHANGED <<fResult, fPc>>
     ELSE IF IsLastAttempt(fAttempt)
     THEN /\ fResult' = [kind |-> "raised", exc |-> o]
          /\ fPc' = "raised"
          /\ UNCHANGED fAttempt
     ELSE /\ fPc' = "sleep"
          /\ UNCHANGED <<fResult, fAttempt>>
  /\ UNCHANGED fMagic
  /\ UNCHANGED <<pipeVars, storeVars, textVars, batchVars, crawlVars,
                 queueVars>>

\* await asyncio.sleep(CRAWL_CONFIG["RETRY_DELAY"]) is over: next attempt.
FetchSleep ==
  /\ fPc = "sleep"
  /\ fAttempt' = fAttempt + 1
  /\ fPc' = "loop"
  /\ UNCHANGED <<fMagic, fLog, fResult>>
  /\ UNCHANGED <<pipeVars, storeVars, textVars, batchVars, crawlVars,
                 queueVars>>

\* The range is exhausted: `return None`.
FetchExhausted ==
  /\ fPc = "loop"
  /\ fAttempt >= RetryAttempts
  /\ fResult' = [kind |-> "none", exc |-> ""]
  /\ fPc' = "returned"
  /\ UNCHANGED <<fMagic, fAttempt, fLog>>
  /\ UNCHANGED <<pipeVars, storeVars, textVars, batchVars, crawlVars,
                 queueVars>>

NextFetch ==
  \/ \E started \in BOOLEAN : FetchEnter(started)
  \/ \E o \in ArunOutcomes : FetchAttempt(o)
  \/ FetchSleep
  \/ FetchExhausted

\* One call of PageFetcher._execute_with_retry.
SpecFetch == InitFetch /\ [][NextFetch]_vars

\* ------------------------------------------------ claims on the fetcher
\* The outcome of the last call of crawler.arun.
LastOutcome == fLog[Len(fLog)].outcome

\* C39: _execute_with_retry calls crawler.arun at most RETRY_ATTEMPTS
\* times; a result with success ends the call and is returned; magic is
\* passed on the first attempt only, and there as requested; an exception
\* of the last attempt is the one raised; and when every attempt gave a
\* result without success the call returns None.
C39_RetriesBounded ==
  /\ Len(fLog) <= RetryAttempts
  /\ \A k \in 1..Len(fLog) :
       /\ fLog[k].attempt = k - 1
       /\ fLog[k].outcome = "ok" =>
            k = Len(fLog) /\ fPc = "returned" /\ fResult.kind = "result"
       /\ fLog[k].magic = (k = 1 /\ fMagic)
  /\ fResult.kind = "result" => LastOutcome = "ok"
  /\ (Len(fLog) = RetryAttempts /\ LastOutcome \in ArunExceptions) =>
       fPc = "raised" /\ fResult = [kind |-> "raised", exc |-> LastOutcome]
  /\ (fPc = "raised" /\ fLog # <<>>) =>
       Len(fLog) = RetryAttempts /\ LastOutcome \in ArunExceptions
  /\ (fPc = "returned" /\ \A k \in 1..Len(fLog) : fLog[k].outcome = "failed")
       => Len(fLog) = RetryAttempts /\ fResult.kind = "none"
  /\ fResult.kind = "none" =>
       Len(fLog) = RetryAttempts /\ LastOutcome = "failed"

\* A call with magic mode whose first attempt timed out, whose second gave
\* no success and whose last raised: that last exception left the call.
C39_Witness ==
  /\ fMagic
  /\ fPc = "raised"
  /\ Len(fLog) = RetryAttempts
  /\ fLog[1].outcome = "timeout" /\ fLog[1].magic
  /\ fLog[2].outcome = "failed"
  /\ LastOutcome = "error"
  /\ fResult.exc = "error"

\* A call all of whose attempts gave a result without success has
\* returned None.
C39_WitnessNone ==
  /\ fPc = "returned"
  /\ fResult.kind = "none"
  /\ Len(fLog) = RetryAttempts
  /\ \A k \in 1..Len(fLog) : fLog[k].outcome = "failed"

====
